---------------------------- MODULE Spec2Model ----------------------------
(* A model of the MythBox backend communication layer                      *)
(* (resources/src/mythbox/mythtv/conn.py): message framing and reply       *)
(* reading, the inject_conn pool binding, the block file transfer, the     *)
(* long-integer codec, connecting (negotiation and announce), the command *)
(* operations with close, the queries, and of the event bus                *)
(* (resources/src/mythbox/bus.py).                                         *)
(*                                                                         *)
(* A Python str is modelled as a sequence of one-character strings, a      *)
(* Python list of str as a sequence of such sequences.  A Python value     *)
(* whose type matters (str or list) is a record [kind, val].               *)
EXTENDS Integers, Sequences, FiniteSets, TLC

VARIABLES
  \* ---- message framing: Connection._sendMsg / _readMsg / recv_all ----
  msg,        \* token list handed to _sendMsg
  frame,      \* the frame _buildMsg made of msg
  wire,       \* all the bytes the peer puts on the socket for this reply
  sockIn,     \* bytes of wire not yet taken by socket.recv, in order
  sockEof,    \* TRUE: the peer closes the socket once sockIn is delivered
  pc,         \* position of the reader inside _readMsg
  b,          \* recv_all: bytes accumulated so far
  bytes,      \* recv_all: number of bytes asked for
  raDone,     \* recv_all has left its loop (enough bytes, or eof break)
  retMsg,     \* _readMsg: the header as read
  n,          \* _readMsg: announced payload length
  i,          \* _readMsg: payload bytes collected
  reply,      \* _readMsg: payload collected
  result,     \* _readMsg: returned value, or the exception raised
  consumed,   \* bytes taken from the socket by this _readMsg
  nEof,       \* socket.recv calls that returned '' during this _readMsg
  peer,       \* what the peer did: "echo", "cut" or "raw" ("none" before)
  partial,    \* some socket.recv returned fewer bytes than it was asked for
  \* ---- the pool binding: inject_conn ----
  stack,        \* per thread, the inject_conn invocations it is inside of
  threadlocals, \* per thread, the conn slot of its thread-local storage
  connAttr,     \* per target object, the conn accessor bolted onto it
  pool,         \* per Connection: "uncreated", "idle", or the thread holding it
  calls,        \* per thread, injected calls begun so far
  g,            \* per thread, the record of its current outermost call
  \* ---- the file transfer: Connection.transferFile ----
  tfPc,                \* position inside transferFile
  backendHost,         \* the backend asked for the file
  commandSocket,       \* the socket block requests go over
  closeCommandSocket,  \* transferFile opened commandSocket itself
  sockets,             \* per socket: "none", "open" or "closed"
  tfReply,             \* the local variable reply: tokens of the last reply
  filesize,
  remainingBytes,
  blockSize,
  blockTransferred,
  maxReceived,
  fh,                  \* the destination file: "none", "open" or "closed"
  written,             \* its content, as runs [lo, hi) of offsets of the remote file
  rc,
  requests,            \* block requests written to the command socket, in order
  unserved,            \* a block request has reached the peer and is not served yet
  lost,                \* a block request was not sent (the send failed)
  dataAvail,           \* bytes waiting in the data socket
  dataPos,             \* offset in the remote file of the next byte of the data socket
  dataEof,             \* the peer has closed the data socket
  cmdPending,          \* replies waiting unread in the command socket
  acksRead,            \* replies transferFile read from the command socket
  shortReads,          \* dataSocket.recv calls that returned less than asked for
  zeroReads,           \* dataSocket.recv calls that returned nothing
  \* ---- the long-integer codec: encodeLongLong, decodeLongLong ----
  codecPc,             \* "start", "encoded" or "decoded"
  long64Bits,          \* the value handed to encodeLongLong
  encoded,             \* the pair encodeLongLong returned
  low32Bits,           \* decodeLongLong's first argument
  high32Bits,          \* decodeLongLong's second argument
  decoded,             \* the value decodeLongLong returned
  \* ---- connecting: Connection.__init__, connect, negotiateProtocol ----
  protocol_serverVersion, \* the process-wide protocol.serverVersion
  hostVersion,         \* per backend, the protocol version it speaks
  socks,               \* per Connection, the sockets it has opened, in order
  conn,                \* per Connection, its fields protocol and cmdSock
  cx,                  \* per Connection, the connect() call it is inside of
  nConnects,           \* connect() calls begun in the process
  nCommands,           \* commands sent on primary sockets
  \* ---- command operations on the command socket of one Connection ----
  opName,              \* the operation in progress ("none" between operations)
  opStep,              \* its position in the socket calls it makes
  cmdReply,            \* what _readMsg returned to it (None before)
  outcome,             \* what it returned or raised
  sendFailed,          \* the socket write of its request raised a socket error
  wireLog,             \* what crossed the command socket, in order
  sockState,           \* the command socket: "open", "shutdown" or "closed"
  published,           \* events handed to bus.publish, in order
  nOps,                \* operations begun
  \* ---- queries: what a method makes of the reply to its request ----
  queryName,           \* the method
  queryArg,            \* its arguments and the replies the backend gives
  queryResult,         \* what it returned or raised (NoOutcome before)
  sockOut,             \* what the socket has taken from the call's writes
  \* ---- the event bus: EventBus ----
  listeners,           \* EventBus.listeners, in order
  busPc,               \* "idle", "publish" inside publish(), "published" after it
  pubIndex,            \* publish: position of the for loop in listeners
  atStart,             \* publish: the listeners when it was called
  delivered,           \* publish: the listeners whose onEvent was called, in order
  busRaised,           \* an exception reached the caller of the bus
  nBus                 \* bus calls made

frameVars == <<msg, frame, wire, sockIn, sockEof, pc, b, bytes, raDone, retMsg, n, i,
               reply, result, consumed, nEof, peer, partial>>

injectVars == <<stack, threadlocals, connAttr, pool, calls, g>>

transferVars == <<tfPc, backendHost, commandSocket, closeCommandSocket, sockets,
                  tfReply, filesize, remainingBytes, blockSize, blockTransferred,
                  maxReceived, fh, written, rc, requests, unserved, lost,
                  dataAvail, dataPos, dataEof, cmdPending, acksRead, shortReads,
                  zeroReads>>

codecVars == <<codecPc, long64Bits, encoded, low32Bits, high32Bits, decoded>>

connectVars == <<protocol_serverVersion, hostVersion, socks, conn, cx, nConnects,
                 nCommands>>

commandVars == <<opName, opStep, cmdReply, outcome, sendFailed, wireLog, sockState,
                 published, nOps>>

queryVars == <<queryName, queryArg, queryResult, sockOut>>

busVars == <<listeners, busPc, pubIndex, atStart, delivered, busRaised, nBus>>

vars == <<frameVars, injectVars, transferVars, codecVars, connectVars, commandVars,
          queryVars, busVars>>

notFrame == <<injectVars, transferVars, codecVars, connectVars, commandVars,
             queryVars, busVars>>
notInject == <<frameVars, transferVars, codecVars, connectVars, commandVars,
             queryVars, busVars>>
notTransfer == <<frameVars, injectVars, codecVars, connectVars, commandVars,
             queryVars, busVars>>
notCodec == <<frameVars, injectVars, transferVars, connectVars, commandVars,
             queryVars, busVars>>
notConnect == <<frameVars, injectVars, transferVars, codecVars, commandVars,
             queryVars, busVars>>
notCommand == <<frameVars, injectVars, transferVars, codecVars, connectVars,
               queryVars, busVars>>
notQuery == <<frameVars, injectVars, transferVars, codecVars, connectVars, commandVars,
             busVars>>
notBus == <<frameVars, injectVars, transferVars, codecVars, connectVars, commandVars,
           queryVars>>

-----------------------------------------------------------------------------
(* Bounds of the model *)

\* most tokens in a message handed to _sendMsg
MaxTokens == 2
\* most zero-length reads the reader is followed through after end of stream
MaxEofReads == 2
\* most short reads of the data socket during one transfer
MaxShortReads == 2
\* most zero-length reads of the data socket the transfer is followed through
MaxZeroReads == 2
\* most connect() calls the process makes
MaxConnects == 2
\* most commands sent on primary sockets
MaxCommands == 1
\* most entries of EventBus.listeners
MaxListeners == 3
\* most calls of register, deregister and publish
MaxBusCalls == 4
\* most tuners the database lists
MaxTuners == 2
\* most records a record-set reply announces
MaxRecords == 2
\* most command operations begun on one command socket
MaxOps == 2
\* most injected calls one thread begins
MaxCalls == 2
\* deepest nesting of injected calls on one thread
MaxDepth == 2

-----------------------------------------------------------------------------
(* Python values *)

None == [kind |-> "None", val |-> <<>>]
PyStr(s) == [kind |-> "str", val |-> s]
PyList(l) == [kind |-> "list", val |-> l]
PyExc(e) == [kind |-> "exception", val |-> e]

Min(x, y) == IF x < y THEN x ELSE y

-----------------------------------------------------------------------------
(* The parts of the state, each at rest *)

FrameIdle ==
  /\ msg = <<>>
  /\ frame = <<>>
  /\ wire = <<>>
  /\ sockIn = <<>>
  /\ sockEof = FALSE
  /\ pc = "off"
  /\ b = <<>>
  /\ bytes = 0
  /\ raDone = FALSE
  /\ retMsg = <<>>
  /\ n = 0
  /\ i = 0
  /\ reply = <<>>
  /\ result = None
  /\ consumed = 0
  /\ nEof = 0
  /\ peer = "none"
  /\ partial = FALSE

Threads == {"t1", "t2"}

\* target objects: "a" gets its Connection from the pool, "d" was given one
\* by its constructor (self._conn)
Objects == {"a", "d"}
HasConn(o) == o = "d"

Conns == {"c1", "c2", "c3"}
OrderOf(c) == IF c = "c1" THEN 1 ELSE IF c = "c2" THEN 2 ELSE 3

\* what is recorded about a thread's current outermost injected call:
\*   nOut, nIn   checkout() calls that returned, checkin() calls made
\*   deep        deepest nesting reached;  pooled: the outermost call took
\*               the pool path (its target has no Connection of its own)
\*   seen, via   what self.conn() last returned, and the thread whose
\*               accessor was on the target then
\*   relOf, gave, func, exit   of the last invocation left that had checked
\*               out relOf: what it passed to checkin ("none": no checkin),
\*               how the wrapped method ended and how the invocation ended
NewGhost == [nOut |-> 0, nIn |-> 0, deep |-> 0, pooled |-> FALSE,
             seen |-> "none", via |-> "none",
             relOf |-> "none", gave |-> "none", func |-> "none", exit |-> "none"]

InjectIdle ==
  /\ stack = [t \in Threads |-> <<>>]
  /\ threadlocals = [t \in Threads |-> "missing"]
  /\ connAttr = [o \in Objects |-> "class"]
  /\ pool = [c \in Conns |-> "uncreated"]
  /\ calls = [t \in Threads |-> 0]
  /\ g = [t \in Threads |-> NewGhost]

TransferIdle ==
  /\ tfPc = "off"
  /\ backendHost = "None"
  /\ commandSocket = "none"
  /\ closeCommandSocket = FALSE
  /\ sockets = [k \in {"cmdSock", "slaveSock", "dataSocket"} |-> "none"]
  /\ tfReply = <<>>
  /\ filesize = 0
  /\ remainingBytes = 0
  /\ blockSize = 0
  /\ blockTransferred = 0
  /\ maxReceived = 0
  /\ fh = "none"
  /\ written = <<>>
  /\ rc = TRUE
  /\ requests = <<>>
  /\ unserved = FALSE
  /\ lost = FALSE
  /\ dataAvail = 0
  /\ dataPos = 0
  /\ dataEof = FALSE
  /\ cmdPending = 0
  /\ acksRead = 0
  /\ shortReads = 0
  /\ zeroReads = 0

CodecIdle ==
  /\ codecPc = "off"
  /\ long64Bits = <<>>
  /\ encoded = <<>>
  /\ low32Bits = None
  /\ high32Bits = None
  /\ decoded = None

\* the Connections of the process
Connections == {"k1", "k2"}

\* the backends: the master (settings.getMythTvHost()) and a slave
Backends == {"master", "slave"}

\* protocol.serverVersion before any probe (None)
NoVersion == 0

\* no connect() call in progress
NoCall == [pc |-> "idle", purpose |-> "none", announce |-> "None",
           host |-> "master", s |-> 0, late |-> FALSE, clientVersion |-> NoVersion,
           serverVersion |-> NoVersion, exc |-> "none", what |-> "none",
           protocolVersion |-> NoVersion]

\* a Connection object before __init__ has run
NoConnection == [protocol |-> NoVersion, cmdSock |-> 0, constructed |-> FALSE,
                 closed |-> FALSE]

ConnectIdle ==
  /\ protocol_serverVersion = NoVersion
  /\ hostVersion = [h \in Backends |-> NoVersion]
  /\ socks = [k \in Connections |-> <<>>]
  /\ conn = [k \in Connections |-> NoConnection]
  /\ cx = [k \in Connections |-> NoCall]
  /\ nConnects = 0
  /\ nCommands = 0

\* what an operation has returned or raised
NoOutcome == [kind |-> "none", exc |-> "none", val |-> None]
Returns(v) == [kind |-> "return", exc |-> "none", val |-> v]
Raises(e, v) == [kind |-> "raise", exc |-> e, val |-> v]

CommandIdle ==
  /\ opName = "none"
  /\ opStep = 0
  /\ cmdReply = None
  /\ outcome = NoOutcome
  /\ sendFailed = FALSE
  /\ wireLog = <<>>
  /\ sockState = "off"
  /\ published = <<>>
  /\ nOps = 0

QueryIdle ==
  /\ queryName = "none"
  /\ queryArg = None
  /\ queryResult = NoOutcome
  /\ sockOut = <<>>

BusIdle ==
  /\ listeners = <<>>
  /\ busPc = "off"
  /\ pubIndex = 0
  /\ atStart = <<>>
  /\ delivered = <<>>
  /\ busRaised = FALSE
  /\ nBus = 0

-----------------------------------------------------------------------------
(* Strings *)

\* str.upper(), on the characters the model uses
UpperChar(c) == IF c = "o" THEN "O" ELSE IF c = "k" THEN "K" ELSE c
Upper(s) == [j \in 1..Len(s) |-> UpperChar(s[j])]

Digits == <<"0", "1", "2", "3", "4", "5", "6", "7", "8", "9">>
IsDigit(c) == \E d \in 1..10 : Digits[d] = c
DigitVal(c) == (CHOOSE d \in 1..10 : Digits[d] = c) - 1

\* '%d' % v for v >= 0
RECURSIVE Str(_)
Str(v) == IF v < 10 THEN <<Digits[v + 1]>>
          ELSE Str(v \div 10) \o <<Digits[(v % 10) + 1]>>

Spaces(k) == [j \in 1..k |-> " "]

\* '%-8d' % v: left-justified in a field of at least FieldWidth characters
FieldWidth == 8
FormatLenRight(v) == Spaces(FieldWidth - Len(Str(v))) \o Str(v)
FormatLen(v) ==
  IF Len(Str(v)) >= FieldWidth THEN Str(v)
  ELSE Str(v) \o Spaces(FieldWidth - Len(Str(v)))

\* protocol.separator
separator == <<"[", "]", ":", "[", "]">>

\* s has the separator at position p
SepAt(s, p) ==
  /\ p >= 1
  /\ p + Len(separator) - 1 <= Len(s)
  /\ SubSeq(s, p, p + Len(separator) - 1) = separator

\* protocol.separator.join(msg)
RECURSIVE Join(_)
Join(l) == IF Len(l) = 0 THEN <<>>
           ELSE IF Len(l) = 1 THEN l[1]
           ELSE l[1] \o separator \o Join(Tail(l))

\* str.split(separator): cut at each occurrence found scanning left to right
RECURSIVE Split(_)
Split(s) ==
  IF \E p \in 1..Len(s) : SepAt(s, p)
  THEN LET p == CHOOSE q \in 1..Len(s) :
                  SepAt(s, q) /\ \A r \in 1..(q - 1) : ~SepAt(s, r)
       IN <<SubSeq(s, 1, p - 1)>> \o Split(SubSeq(s, p + Len(separator), Len(s)))
  ELSE <<s>>

\* int(s) of Python 2 for a str: surrounding blanks are stripped, then an
\* optional sign and at least one digit; anything else is a ValueError.
LStrip(s) ==
  LET k == CHOOSE j \in 0..Len(s) :
             (\A m \in 1..j : s[m] = " ") /\ (j = Len(s) \/ s[j + 1] # " ")
  IN SubSeq(s, k + 1, Len(s))
RStrip(s) ==
  LET k == CHOOSE j \in 0..Len(s) :
             (\A m \in (j + 1)..Len(s) : s[m] = " ") /\ (j = 0 \/ s[j] # " ")
  IN SubSeq(s, 1, k)
RECURSIVE DecimalValue(_)
DecimalValue(s) == IF Len(s) = 0 THEN 0
                   ELSE 10 * DecimalValue(SubSeq(s, 1, Len(s) - 1)) + DigitVal(s[Len(s)])
ParseInt(s) ==
  LET t == RStrip(LStrip(s))
      neg == Len(t) > 0 /\ t[1] = "-"
      d == IF Len(t) > 0 /\ t[1] \in {"-", "+"} THEN Tail(t) ELSE t
  IN IF Len(d) > 0 /\ \A j \in 1..Len(d) : IsDigit(d[j])
     THEN [ok |-> TRUE, val |-> IF neg THEN 0 - DecimalValue(d) ELSE DecimalValue(d)]
     ELSE [ok |-> FALSE, val |-> 0]

\* Connection._buildMsg
_buildMsgCount(m) == FormatLen(Len(m)) \o Join(m)
_buildMsg(m) == FormatLen(Len(Join(m))) \o Join(m)

\* Connection._isOk
_isOk(m) ==
  IF m = None \/ Len(m.val) = 0 THEN FALSE
  ELSE LET first == IF m.kind = "str" THEN <<m.val[1]>> ELSE m.val[1]
       IN Upper(first) = <<"O", "K">>

-----------------------------------------------------------------------------
(* Reading a reply: Connection._readMsg over Connection.recv_all.  The     *)
(* peer is a loopback that answers with the frame built from msg (whole,   *)
(* or cut short, possibly followed by the start of a further message), or  *)
(* with a bare unframed acknowledgment.                                    *)

Tokens == { <<>>, <<"O", "K">>, <<"7">>, <<"[", "]", ":">>, separator }

TokenLists == UNION { [1..k -> Tokens] : k \in 0..MaxTokens }

\* unframed replies a peer may write before closing
RawReplies == { <<"O", "K">>, <<"o", "k">>, <<"O", "K", " ", " ", " ", " ", " ", " ">>, <<>> }

\* bytes of a following message that may already be in the socket buffer
Trailers == { <<>>, <<"1", " ">> }

FrameInit ==
  /\ QueryIdle
  /\ BusIdle
  /\ InjectIdle
  /\ TransferIdle
  /\ CodecIdle
  /\ ConnectIdle
  /\ CommandIdle
  /\ msg \in TokenLists
  /\ frame = <<>>
  /\ wire = <<>>
  /\ sockIn = <<>>
  /\ sockEof = FALSE
  /\ pc = "build"
  /\ b = <<>>
  /\ bytes = 0
  /\ raDone = FALSE
  /\ retMsg = <<>>
  /\ n = 0
  /\ i = 0
  /\ reply = <<>>
  /\ result = None
  /\ consumed = 0
  /\ nEof = 0
  /\ peer = "none"
  /\ partial = FALSE

\* _sendMsg builds the frame of msg (line 1155)
BuildFrame ==
  /\ pc = "build"
  /\ frame' = _buildMsg(msg)
  /\ pc' = "peer"
  /\ UNCHANGED <<peer, partial, msg, wire, sockIn, sockEof, b, bytes, raDone, retMsg, n, i,
                 reply, result, consumed, nEof>>
  /\ UNCHANGED notFrame

\* the peer answers with the whole frame, then keeps the socket open or closes
PeerEchoes ==
  /\ pc = "peer"
  /\ \E t \in Trailers, eof \in BOOLEAN :
       /\ wire' = frame \o t
       /\ sockEof' = eof
  /\ peer' = "echo"
  /\ sockIn' = wire'
  /\ pc' = "ready"
  /\ UNCHANGED <<partial, msg, frame, b, bytes, raDone, retMsg, n, i, reply, result,
                 consumed, nEof>>
  /\ UNCHANGED notFrame

\* the peer closes the socket before the whole frame is out
PeerCutsShort ==
  /\ pc = "peer"
  /\ \E cut \in 0..(Len(frame) - 1) : wire' = SubSeq(frame, 1, cut)
  /\ peer' = "cut"
  /\ sockEof' = TRUE
  /\ sockIn' = wire'
  /\ pc' = "ready"
  /\ UNCHANGED <<partial, msg, frame, b, bytes, raDone, retMsg, n, i, reply, result,
                 consumed, nEof>>
  /\ UNCHANGED notFrame

\* the peer writes an unframed reply and closes
PeerRaw ==
  /\ pc = "peer"
  /\ wire' \in RawReplies
  /\ peer' = "raw"
  /\ sockEof' = TRUE
  /\ sockIn' = wire'
  /\ pc' = "ready"
  /\ UNCHANGED <<partial, msg, frame, b, bytes, raDone, retMsg, n, i, reply, result,
                 consumed, nEof>>
  /\ UNCHANGED notFrame

\* _readMsg up to its first call of recv_all (lines 1105-1108)
_readMsg_start ==
  /\ pc = "ready"
  /\ retMsg' = <<>>
  /\ b' = <<>>
  /\ bytes' = FieldWidth
  /\ raDone' = FALSE
  /\ pc' = "header"
  /\ UNCHANGED <<peer, partial, msg, frame, wire, sockIn, sockEof, n, i, reply, result,
                 consumed, nEof>>
  /\ UNCHANGED notFrame

\* the argument recv_all passes to socket.recv (lines 1142, 1144)
RecvArgWhole(have, want) == want
RecvArg(have, want) == want - Len(have)

\* recv_all leaves its loop when it has the bytes asked for (line 1141)
LoopDoneNever(have, want) == FALSE
LoopDone(have, want) == ~(Len(have) < want)

\* one pass of recv_all's loop in which socket.recv returns data (1141-1150)
recv_all_data ==
  /\ pc \in {"header", "payload"}
  /\ ~raDone
  /\ sockIn # <<>>
  /\ \E k \in 1..Min(RecvArg(b, bytes), Len(sockIn)) :
       /\ b' = b \o SubSeq(sockIn, 1, k)
       /\ sockIn' = SubSeq(sockIn, k + 1, Len(sockIn))
       /\ consumed' = consumed + k
       /\ partial' = (partial \/ k < RecvArg(b, bytes))
  /\ raDone' = LoopDone(b', bytes)
  /\ UNCHANGED <<peer, msg, frame, wire, sockEof, pc, bytes, retMsg, n, i, reply,
                 result, nEof>>
  /\ UNCHANGED notFrame

\* one pass in which socket.recv returns '': break, return what there is
recv_all_eof ==
  /\ pc \in {"header", "payload"}
  /\ ~raDone
  /\ sockIn = <<>>
  /\ sockEof
  /\ nEof < MaxEofReads
  /\ nEof' = nEof + 1
  /\ raDone' = TRUE
  /\ UNCHANGED <<peer, partial, msg, frame, wire, sockIn, sockEof, pc, b, bytes, retMsg, n, i,
                 reply, result, consumed>>
  /\ UNCHANGED notFrame

\* socket.recv raises: recv_all re-raises, _readMsg logs and re-raises
recv_all_raise ==
  /\ pc \in {"header", "payload"}
  /\ ~raDone
  /\ result' = PyExc("socket.error")
  /\ pc' = "raised"
  /\ UNCHANGED <<peer, partial, msg, frame, wire, sockIn, sockEof, b, bytes, raDone, retMsg, n,
                 i, reply, consumed, nEof>>
  /\ UNCHANGED notFrame

\* the one-token list a caller of _readMsg expects for a bare OK
OkReplyList == PyList(<< <<"O", "K">> >>)
\* what _readMsg returns when the header reads as OK (lines 1111-1112):
\* the str itself
OkReply == PyStr(<<"O", "K">>)

\* _readMsg once recv_all(s, 8) has returned (lines 1108-1120)
_readMsg_header ==
  /\ pc = "header"
  /\ raDone
  /\ retMsg' = b
  /\ IF Upper(b) = <<"O", "K">>
     THEN /\ result' = OkReply
          /\ pc' = "returned"
          /\ UNCHANGED <<n, i, reply, b, bytes, raDone>>
     ELSE IF ~ParseInt(b).ok
     THEN /\ result' = PyExc("ValueError")
          /\ pc' = "raised"
          /\ UNCHANGED <<n, i, reply, b, bytes, raDone>>
     ELSE /\ n' = ParseInt(b).val
          /\ i' = 0
          /\ reply' = <<>>
          /\ IF 0 < n'
             THEN /\ b' = <<>>
                  /\ bytes' = n'
                  /\ raDone' = FALSE
                  /\ pc' = "payload"
                  /\ UNCHANGED result
             ELSE /\ result' = PyList(Split(<<>>))
                  /\ pc' = "returned"
                  /\ UNCHANGED <<b, bytes, raDone>>
  /\ UNCHANGED <<peer, partial, msg, frame, wire, sockIn, sockEof, consumed, nEof>>
  /\ UNCHANGED notFrame

\* _readMsg once recv_all(s, n - i) has returned (lines 1117-1125)
_readMsg_payload ==
  /\ pc = "payload"
  /\ raDone
  /\ reply' = reply \o b
  /\ i' = Len(reply')
  /\ IF i' < n
     THEN /\ b' = <<>>
          /\ bytes' = n - i'
          /\ raDone' = FALSE
          /\ UNCHANGED <<pc, result>>
     ELSE /\ result' = PyList(Split(reply'))
          /\ pc' = "returned"
          /\ UNCHANGED <<b, bytes, raDone>>
  /\ UNCHANGED <<peer, partial, msg, frame, wire, sockIn, sockEof, retMsg, n, consumed, nEof>>
  /\ UNCHANGED notFrame

FrameNext ==
  \/ BuildFrame
  \/ PeerEchoes
  \/ PeerCutsShort
  \/ PeerRaw
  \/ _readMsg_start
  \/ recv_all_data
  \/ recv_all_eof
  \/ recv_all_raise
  \/ _readMsg_header
  \/ _readMsg_payload

SpecFrame == FrameInit /\ [][FrameNext]_vars

-----------------------------------------------------------------------------
(* The pool binding: the inject_conn decorator.  Threads call injected     *)
(* methods on target objects; the wrapped method may use self.conn(), call *)
(* further injected methods, return or raise.                              *)

InjectInit ==
  /\ QueryIdle
  /\ BusIdle
  /\ InjectIdle
  /\ FrameIdle
  /\ TransferIdle
  /\ CodecIdle
  /\ ConnectIdle
  /\ CommandIdle

Top(t) == stack[t][Len(stack[t])]
Pop(t) == SubSeq(stack[t], 1, Len(stack[t]) - 1)
SetTop(t, f) == [stack EXCEPT ![t] = Pop(t) \o <<f>>]

\* lines 104-111: is a Connection already recorded for this thread?
AlreadyAcquiredNever(slot) == FALSE
AlreadyAcquired(slot) == slot \notin {"missing", "unset", "None"}

\* lines 99-100: what the accessor bolted on by thread maker returns when
\* thread caller calls it
conn_accessor_captured(caller, maker) == threadlocals[maker]
conn_accessor(caller, maker) == threadlocals[caller]

\* line 120: the release runs in a finally clause, whatever func did
ReleaseOnReturnOnly(raised) == ~raised
ReleaseAlways(raised) == TRUE

\* line 124: the slot after the release
SlotKept(slot) == slot
SlotAfterRelease(slot) == "None"

\* pool.checkin(x)
Checkin(x) == IF x \in Conns THEN [pool EXCEPT ![x] = "idle"] ELSE pool

\* inject_conn up to the acquisition (lines 81-111), called by the thread's
\* own code or by the wrapped method that is running
Call(t, o) ==
  /\ calls[t] < MaxCalls
  /\ Len(stack[t]) < MaxDepth
  /\ IF stack[t] = <<>> THEN TRUE ELSE Top(t).pc \in {"body", "direct"}
  /\ calls' = [calls EXCEPT ![t] = @ + 1]
  /\ LET base == IF stack[t] = <<>> THEN NewGhost ELSE g[t]
         deep == IF Len(stack[t]) + 1 > base.deep THEN Len(stack[t]) + 1 ELSE base.deep
     IN IF HasConn(o)
        THEN /\ stack' = [stack EXCEPT ![t] =
                    Append(@, [self |-> o, pc |-> "direct", alreadyAcquired |-> FALSE,
                               held |-> "none", raised |-> FALSE])]
             /\ g' = [g EXCEPT ![t] = [base EXCEPT !.deep = deep]]
             /\ UNCHANGED <<threadlocals, connAttr>>
        ELSE LET slot == IF threadlocals[t] = "missing" THEN "unset"
                         ELSE threadlocals[t]
                 aa == AlreadyAcquired(slot)
             IN /\ threadlocals' = [threadlocals EXCEPT ![t] = slot]
                /\ connAttr' = [connAttr EXCEPT ![o] = t]
                /\ stack' = [stack EXCEPT ![t] =
                       Append(@, [self |-> o,
                                  pc |-> IF aa THEN "body" ELSE "checkout",
                                  alreadyAcquired |-> aa,
                                  held |-> "none", raised |-> FALSE])]
                /\ g' = [g EXCEPT ![t] =
                       [base EXCEPT !.deep = deep,
                                    !.pooled = IF stack[t] = <<>> THEN TRUE ELSE @]]
  /\ UNCHANGED pool
  /\ UNCHANGED notInject

\* pool.checkout(): the Connections it may hand out, an idle one or the next
\* one the factory creates
Created(c) == pool[c] # "uncreated"
Handout ==
  { c \in Conns : pool[c] = "idle" } \cup
  { c \in Conns : ~Created(c) /\ \A e \in Conns : Created(e) \/ OrderOf(c) <= OrderOf(e) }

\* lines 114-117: connPool.checkout() returns a Connection, which goes into
\* the thread's slot
Checkout(t) ==
  /\ stack[t] # <<>>
  /\ Top(t).pc = "checkout"
  /\ \E c \in Handout :
       /\ pool' = [pool EXCEPT ![c] = t]
       /\ threadlocals' = [threadlocals EXCEPT ![t] = c]
       /\ stack' = SetTop(t, [Top(t) EXCEPT !.pc = "body", !.held = c])
  /\ g' = [g EXCEPT ![t].nOut = @ + 1, ![t].relOf = "none", ![t].gave = "none",
                     ![t].func = "none", ![t].exit = "none"]
  /\ UNCHANGED <<connAttr, calls>>
  /\ UNCHANGED notInject

\* line 116: connPool.checkout() raises (no Connection could be made)
CheckoutRaises(t) ==
  /\ stack[t] # <<>>
  /\ Top(t).pc = "checkout"
  /\ stack' = SetTop(t, [Top(t) EXCEPT !.pc = "finally", !.raised = TRUE])
  /\ UNCHANGED <<threadlocals, connAttr, pool, calls, g>>
  /\ UNCHANGED notInject

\* the wrapped method calls self.conn() (line 119, through lines 99-101)
UseConn(t) ==
  /\ stack[t] # <<>>
  /\ Top(t).pc = "body"
  /\ connAttr[Top(t).self] \in Threads
  /\ g' = [g EXCEPT ![t].seen = conn_accessor(t, connAttr[Top(t).self]),
                     ![t].via = connAttr[Top(t).self]]
  /\ UNCHANGED <<stack, threadlocals, connAttr, pool, calls>>
  /\ UNCHANGED notInject

\* the wrapped method returns or raises (line 119; line 85 when the target
\* has its own Connection and there is nothing to release)
FuncEnds(t, raises) ==
  /\ stack[t] # <<>>
  /\ Top(t).pc \in {"body", "direct"}
  /\ IF Top(t).pc = "direct"
     THEN stack' = [stack EXCEPT ![t] = Pop(t)]
     ELSE stack' = SetTop(t, [Top(t) EXCEPT !.pc = "finally", !.raised = raises])
  /\ UNCHANGED <<threadlocals, connAttr, pool, calls, g>>
  /\ UNCHANGED notInject

Return(t) == FuncEnds(t, FALSE)
Raise(t) == FuncEnds(t, TRUE)

\* what leaving invocation f records
Left(t, f, gave, exit) ==
  IF f.held = "none" THEN g[t]
  ELSE [g[t] EXCEPT !.relOf = f.held, !.gave = gave,
                    !.func = IF f.raised THEN "raise" ELSE "return",
                    !.exit = exit]

\* lines 120-125: the finally clause, then the return or the re-raise
Finally(t) ==
  /\ stack[t] # <<>>
  /\ Top(t).pc = "finally"
  /\ LET f == Top(t)
         func == IF f.raised THEN "raise" ELSE "return"
         releases == ~f.alreadyAcquired /\ ReleaseAlways(f.raised)
     IN IF ~releases
        THEN /\ g' = [g EXCEPT ![t] = Left(t, f, "none", func)]
             /\ UNCHANGED <<threadlocals, pool>>
        ELSE IF threadlocals[t] \in {"missing", "unset"}
        THEN \* line 122 reads a slot never assigned: AttributeError
             /\ g' = [g EXCEPT ![t] = Left(t, f, "none", "raise")]
             /\ UNCHANGED <<threadlocals, pool>>
        ELSE /\ pool' = Checkin(threadlocals[t])
             /\ threadlocals' = [threadlocals EXCEPT ![t] = SlotAfterRelease(@)]
             /\ g' = [g EXCEPT ![t] =
                    [Left(t, f, threadlocals[t], func) EXCEPT !.nIn = @ + 1,
                                                             !.seen = "none",
                                                             !.via = "none"]]
  /\ stack' = [stack EXCEPT ![t] = Pop(t)]
  /\ UNCHANGED <<connAttr, calls>>
  /\ UNCHANGED notInject

InjectNext ==
  \E t \in Threads :
    \/ \E o \in Objects : Call(t, o)
    \/ Checkout(t)
    \/ CheckoutRaises(t)
    \/ UseConn(t)
    \/ Return(t)
    \/ Raise(t)
    \/ Finally(t)

SpecInject == InjectInit /\ [][InjectNext]_vars

-----------------------------------------------------------------------------
(* The file transfer: Connection.transferFile.  The Connection is up (its  *)
(* command socket cmdSock is open); the peer serves block requests by      *)
(* writing the block to the data socket and an acknowledgment to the       *)
(* command socket, and may close the data socket at any time.              *)

\* line 1060
maxBlockSize == 2000000

\* sizes of the remote file, as decoded from the announce reply (line 1054)
FileSizes == {0, 1, 1999999, 2000000, 2000001, 4000000, 5000000}

\* lengths a short read of the data socket may have
ShortSizes == {1, 65536, 1000000}

\* the hosts transferFile may be asked to fetch from
Hosts == {"None", "master", "slave"}

\* tokens of replies on the command socket
HandleToken == [t |-> "handle", v |-> 37]
SizeToken(v) == [t |-> "size", v |-> v]
CountToken(v) == [t |-> "count", v |-> v]

TransferInit ==
  /\ QueryIdle
  /\ BusIdle
  /\ FrameIdle
  /\ InjectIdle
  /\ CodecIdle
  /\ ConnectIdle
  /\ CommandIdle
  /\ tfPc = "start"
  /\ backendHost \in Hosts
  /\ commandSocket = "none"
  /\ closeCommandSocket = FALSE
  /\ sockets = [k \in {"cmdSock", "slaveSock", "dataSocket"} |->
                  IF k = "cmdSock" THEN "open" ELSE "none"]
  /\ tfReply = <<>>
  /\ filesize = 0
  /\ remainingBytes = 0
  /\ blockSize = 0
  /\ blockTransferred = 0
  /\ maxReceived = 0
  /\ fh = "none"
  /\ written = <<>>
  /\ rc = TRUE
  /\ requests = <<>>
  /\ unserved = FALSE
  /\ lost = FALSE
  /\ dataAvail = 0
  /\ dataPos = 0
  /\ dataEof = FALSE
  /\ cmdPending = 0
  /\ acksRead = 0
  /\ shortReads = 0
  /\ zeroReads = 0

Max(x, y) == IF x > y THEN x ELSE y

\* lines 1038-1051: choose the command socket; a slave backend gets a
\* connection of its own, which connect() may fail to set up
transferFile_start ==
  /\ tfPc = "start"
  /\ rc' = TRUE
  /\ LET host == IF backendHost = "None" THEN "master" ELSE backendHost
     IN /\ backendHost' = host
        /\ IF host # "master"
           THEN \E up \in BOOLEAN :
                  IF up
                  THEN /\ sockets' = [sockets EXCEPT !["slaveSock"] = "open"]
                       /\ commandSocket' = "slaveSock"
                       /\ closeCommandSocket' = TRUE
                       /\ tfPc' = "announce"
                  ELSE /\ tfPc' = "raised"
                       /\ UNCHANGED <<sockets, commandSocket, closeCommandSocket>>
           ELSE /\ commandSocket' = "cmdSock"
                /\ closeCommandSocket' = FALSE
                /\ tfPc' = "announce"
                /\ UNCHANGED sockets
  /\ UNCHANGED <<tfReply, filesize, remainingBytes, blockSize, blockTransferred,
                 maxReceived, fh, written, requests, unserved, lost, dataAvail,
                 dataPos, dataEof, cmdPending, acksRead, shortReads, zeroReads>>
  /\ UNCHANGED notTransfer

\* lines 1053-1063: announce the transfer, decode the size, open the file
transferFile_announce ==
  /\ tfPc = "announce"
  /\ \E size \in FileSizes :
       /\ tfReply' = <<HandleToken, SizeToken(0), SizeToken(size)>>
       /\ filesize' = size
       /\ IF size = 0
          THEN /\ rc' = FALSE
               /\ UNCHANGED <<remainingBytes, fh, maxReceived>>
          ELSE /\ remainingBytes' = size
               /\ fh' = "open"
               /\ maxReceived' = 0
               /\ UNCHANGED rc
       /\ tfPc' = IF size = 0 THEN "close" ELSE "loop"
  /\ sockets' = [sockets EXCEPT !["dataSocket"] = "open"]
  /\ UNCHANGED <<backendHost, commandSocket, closeCommandSocket, blockSize,
                 blockTransferred, written, requests, unserved, lost, dataAvail,
                 dataPos, dataEof, cmdPending, acksRead, shortReads, zeroReads>>
  /\ UNCHANGED notTransfer

\* line 1053: the backend refuses the transfer, annFileTransfer raises
transferFile_refused ==
  /\ tfPc = "announce"
  /\ sockets' = [sockets EXCEPT !["dataSocket"] = "open"]
  /\ tfPc' = "raised"
  /\ UNCHANGED <<backendHost, commandSocket, closeCommandSocket, tfReply, filesize,
                 remainingBytes, blockSize, blockTransferred, maxReceived, fh,
                 written, rc, requests, unserved, lost, dataAvail, dataPos,
                 dataEof, cmdPending, acksRead, shortReads, zeroReads>>
  /\ UNCHANGED notTransfer

\* line 1066
BlockSizeWhole(remaining) == maxBlockSize
BlockSize(remaining) == Min(remaining, maxBlockSize)

\* lines 1065-1070: ask for the next block; _sendMsg swallows a failed send
transferFile_request ==
  /\ tfPc = "loop"
  /\ remainingBytes > 0
  /\ blockSize' = BlockSize(remainingBytes)
  /\ \E ok \in BOOLEAN :
       IF ok
       THEN /\ requests' = Append(requests, [handle |-> tfReply[1], size |-> blockSize'])
            /\ unserved' = TRUE
            /\ UNCHANGED lost
       ELSE /\ lost' = TRUE
            /\ UNCHANGED <<requests, unserved>>
  /\ blockTransferred' = 0
  /\ tfPc' = "recv"
  /\ UNCHANGED <<backendHost, commandSocket, closeCommandSocket, sockets, tfReply,
                 filesize, remainingBytes, maxReceived, fh, written, rc, dataAvail,
                 dataPos, dataEof, cmdPending, acksRead, shortReads, zeroReads>>
  /\ UNCHANGED notTransfer

\* the peer serves the block asked for: the bytes go to the data socket, an
\* acknowledgment carrying their number to the command socket
PeerServes ==
  /\ unserved
  /\ ~dataEof
  /\ LET size == Min(requests[Len(requests)].size, filesize - (dataPos + dataAvail))
     IN dataAvail' = dataAvail + Max(size, 0)
  /\ cmdPending' = cmdPending + 1
  /\ unserved' = FALSE
  /\ UNCHANGED <<tfPc, backendHost, commandSocket, closeCommandSocket, sockets,
                 tfReply, filesize, remainingBytes, blockSize, blockTransferred,
                 maxReceived, fh, written, rc, requests, lost, dataPos, dataEof,
                 acksRead, shortReads, zeroReads>>
  /\ UNCHANGED notTransfer

\* the peer closes the data socket
PeerClosesData ==
  /\ tfPc \in {"loop", "recv", "ack"}
  /\ ~dataEof
  /\ dataEof' = TRUE
  /\ UNCHANGED <<tfPc, backendHost, commandSocket, closeCommandSocket, sockets,
                 tfReply, filesize, remainingBytes, blockSize, blockTransferred,
                 maxReceived, fh, written, rc, requests, unserved, lost, dataAvail,
                 dataPos, cmdPending, acksRead, shortReads, zeroReads>>
  /\ UNCHANGED notTransfer

\* fh.write(data): the file with the bytes [lo, hi) of the remote file added
WriteChunk(f, lo, hi) ==
  IF Len(f) > 0 /\ f[Len(f)].hi = lo
  THEN [f EXCEPT ![Len(f)].hi = hi]
  ELSE Append(f, [lo |-> lo, hi |-> hi])

\* line 1079: which reads are written to the file
WritesWholeOnly(actualBytes, expectedBytes) == actualBytes = expectedBytes
Writes(actualBytes, expectedBytes) == actualBytes > 0

\* line 1071: the block-read loop is left when the block is complete
BlockCompleteEarly(transferred, size) == transferred > 0
BlockComplete(transferred, size) == ~(transferred < size)

\* the lengths dataSocket.recv(expectedBytes) may return with avail bytes waiting
RecvLengths(expectedBytes, avail) ==
  {Min(expectedBytes, avail)} \cup
  { k \in ShortSizes : k < Min(expectedBytes, avail) /\ shortReads < MaxShortReads }

\* lines 1071-1081, one pass in which dataSocket.recv returns data
transferFile_recv ==
  /\ tfPc = "recv"
  /\ blockTransferred < blockSize
  /\ dataAvail > 0
  /\ LET expectedBytes == blockSize - blockTransferred
     IN \E actualBytes \in RecvLengths(expectedBytes, dataAvail) :
          /\ dataAvail' = dataAvail - actualBytes
          /\ dataPos' = dataPos + actualBytes
          /\ maxReceived' = Max(maxReceived, actualBytes)
          /\ blockTransferred' = blockTransferred + actualBytes
          /\ shortReads' = IF actualBytes < expectedBytes THEN shortReads + 1 ELSE shortReads
          /\ written' = IF Writes(actualBytes, expectedBytes)
                        THEN WriteChunk(written, dataPos, dataPos + actualBytes)
                        ELSE written
          /\ tfPc' = IF BlockComplete(blockTransferred', blockSize)
                     THEN "ack" ELSE "recv"
  /\ UNCHANGED <<backendHost, commandSocket, closeCommandSocket, sockets, tfReply,
                 filesize, remainingBytes, blockSize, fh, rc, requests, unserved,
                 lost, dataEof, cmdPending, acksRead, zeroReads>>
  /\ UNCHANGED notTransfer

\* lines 1071-1081, one pass in which dataSocket.recv returns '' (the remote
\* end has closed): nothing is added, nothing is written, the loop goes on
transferFile_recv_closed ==
  /\ tfPc = "recv"
  /\ blockTransferred < blockSize
  /\ dataAvail = 0
  /\ dataEof
  /\ zeroReads < MaxZeroReads
  /\ zeroReads' = zeroReads + 1
  /\ maxReceived' = Max(maxReceived, 0)
  /\ UNCHANGED <<tfPc, backendHost, commandSocket, closeCommandSocket, sockets,
                 tfReply, filesize, remainingBytes, blockSize, blockTransferred,
                 fh, written, rc, requests, unserved, lost, dataAvail, dataPos,
                 dataEof, cmdPending, acksRead, shortReads>>
  /\ UNCHANGED notTransfer

\* lines 1074, 1080: dataSocket.recv raises socket.error (the connection is
\* reset) or fh.write raises IOError (the disk is full).  Nothing catches
\* it: the exception leaves transferFile, which closes and reads nothing
transferFile_recv_raises ==
  /\ tfPc = "recv"
  /\ blockTransferred < blockSize
  /\ tfPc' = "raised"
  /\ UNCHANGED <<backendHost, commandSocket, closeCommandSocket, sockets, tfReply,
                 filesize, remainingBytes, blockSize, blockTransferred, maxReceived,
                 fh, written, rc, requests, unserved, lost, dataAvail, dataPos,
                 dataEof, cmdPending, acksRead, shortReads, zeroReads>>
  /\ UNCHANGED notTransfer

\* lines 1083-1085: read one reply from the command socket into reply
transferFile_ack ==
  /\ tfPc = "ack"
  /\ cmdPending > 0
  /\ cmdPending' = cmdPending - 1
  /\ acksRead' = acksRead + 1
  /\ tfReply' = <<CountToken(blockSize)>>
  /\ remainingBytes' = remainingBytes - blockSize
  /\ tfPc' = "loop"
  /\ UNCHANGED <<backendHost, commandSocket, closeCommandSocket, sockets, filesize,
                 blockSize, blockTransferred, maxReceived, fh, written, rc,
                 requests, unserved, lost, dataAvail, dataPos, dataEof,
                 shortReads, zeroReads>>
  /\ UNCHANGED notTransfer

\* lines 1065, 1087-1089: the loop ends, the file is closed
transferFile_endloop ==
  /\ tfPc = "loop"
  /\ ~(remainingBytes > 0)
  /\ fh' = "closed"
  /\ tfPc' = "close"
  /\ UNCHANGED <<backendHost, commandSocket, closeCommandSocket, sockets, tfReply,
                 filesize, remainingBytes, blockSize, blockTransferred, maxReceived,
                 written, rc, requests, unserved, lost, dataAvail, dataPos,
                 dataEof, cmdPending, acksRead, shortReads, zeroReads>>
  /\ UNCHANGED notTransfer

\* line 1094: whether the command socket is closed with the data socket
ClosesCommandSocketAlways(flag) == TRUE
ClosesCommandSocket(flag) == flag

\* lines 1091-1098: close the data socket, and the command socket if it was
\* opened for this transfer; return rc
transferFile_close ==
  /\ tfPc = "close"
  /\ sockets' = [k \in DOMAIN sockets |->
                   IF k = "dataSocket"
                      \/ (ClosesCommandSocket(closeCommandSocket) /\ k = commandSocket)
                   THEN "closed" ELSE sockets[k]]
  /\ tfPc' = "returned"
  /\ UNCHANGED <<backendHost, commandSocket, closeCommandSocket, tfReply, filesize,
                 remainingBytes, blockSize, blockTransferred, maxReceived, fh,
                 written, rc, requests, unserved, lost, dataAvail, dataPos,
                 dataEof, cmdPending, acksRead, shortReads, zeroReads>>
  /\ UNCHANGED notTransfer

TransferNext ==
  \/ transferFile_start
  \/ transferFile_announce
  \/ transferFile_refused
  \/ transferFile_request
  \/ PeerServes
  \/ PeerClosesData
  \/ transferFile_recv
  \/ transferFile_recv_closed
  \/ transferFile_ack
  \/ transferFile_endloop
  \/ transferFile_close

\* the thread inside transferFile runs whenever it is not blocked on a socket
TransferClient ==
  \/ transferFile_start
  \/ transferFile_announce
  \/ transferFile_request
  \/ transferFile_recv
  \/ transferFile_ack
  \/ transferFile_endloop
  \/ transferFile_close

SpecTransfer ==
  /\ TransferInit
  /\ [][TransferNext]_vars
  /\ WF_vars(TransferClient)
  /\ WF_vars(PeerServes)

\* the transfer with local errors as well: a read of the data socket or a
\* write to the file may raise
TransferErrNext ==
  \/ TransferNext
  \/ transferFile_recv_raises

SpecTransferErr == TransferInit /\ [][TransferErrNext]_vars

-----------------------------------------------------------------------------
(* The long-integer codec: encodeLongLong and decodeLongLong.  A Python    *)
(* long has no fixed width: it is modelled as the sequence of its digits   *)
(* in base 2^16, least significant first, without leading zero digits      *)
(* (the long 0 is the empty sequence).                                     *)

PyLong(x) == [kind |-> "long", val |-> x]

\* one digit of a long
Base == 2^16

\* a long without its leading zero digits
RECURSIVE Norm(_)
Norm(x) == IF Len(x) > 0 /\ x[Len(x)] = 0 THEN Norm(SubSeq(x, 1, Len(x) - 1)) ELSE x

\* digit k of x, 0 beyond its length
DigitAt(x, k) == IF k <= Len(x) THEN x[k] ELSE 0

\* & and | on two digits, bit by bit
RECURSIVE BitAnd(_, _)
BitAnd(a, c) == IF a = 0 \/ c = 0 THEN 0
                ELSE (a % 2) * (c % 2) + 2 * BitAnd(a \div 2, c \div 2)
RECURSIVE BitOr(_, _)
BitOr(a, c) == IF a = 0 THEN c ELSE IF c = 0 THEN a
               ELSE Max(a % 2, c % 2) + 2 * BitOr(a \div 2, c \div 2)

\* x & y, x | y, x << bits, x >> bits for longs x, y >= 0 (bits a multiple of 16)
LongAnd(x, y) == Norm([k \in 1..Min(Len(x), Len(y)) |-> BitAnd(x[k], y[k])])
LongOr(x, y) ==
  Norm([k \in 1..Max(Len(x), Len(y)) |-> BitOr(DigitAt(x, k), DigitAt(y, k))])
LShift(x, bits) == IF x = <<>> THEN <<>> ELSE [k \in 1..(bits \div 16) |-> 0] \o x
RShift(x, bits) == SubSeq(x, (bits \div 16) + 1, Len(x))

\* 0xffffffffL
Mask32 == <<Base - 1, Base - 1>>

\* x + y, and x * m for 0 <= m <= 10
RECURSIVE AddCarry(_, _, _)
AddCarry(x, y, carry) ==
  IF x = <<>> /\ y = <<>> THEN (IF carry = 0 THEN <<>> ELSE <<carry>>)
  ELSE LET t == DigitAt(x, 1) + DigitAt(y, 1) + carry
       IN <<t % Base>> \o AddCarry(IF x = <<>> THEN <<>> ELSE Tail(x),
                                   IF y = <<>> THEN <<>> ELSE Tail(y), t \div Base)
LongAdd(x, y) == Norm(AddCarry(x, y, 0))
RECURSIVE MulCarry(_, _, _)
MulCarry(x, m, carry) ==
  IF x = <<>> THEN (IF carry = 0 THEN <<>> ELSE <<carry>>)
  ELSE LET t == x[1] * m + carry
       IN <<t % Base>> \o MulCarry(Tail(x), m, t \div Base)
LongMulSmall(x, m) == Norm(MulCarry(x, m, 0))

\* x divided by 10: the quotient and the remainder
RECURSIVE DivMod10(_)
DivMod10(x) ==
  IF x = <<>> THEN [q |-> <<>>, r |-> 0]
  ELSE LET hi == DivMod10(Tail(x))
           t == hi.r * Base + x[1]
       IN [q |-> <<t \div 10>> \o hi.q, r |-> t % 10]

\* long(s) for a str of decimal digits
RECURSIVE ParseLong(_)
ParseLong(s) ==
  IF Len(s) = 0 THEN <<>>
  ELSE LongAdd(LongMulSmall(ParseLong(SubSeq(s, 1, Len(s) - 1)), 10),
               Norm(<<DigitVal(s[Len(s)])>>))

\* '%s' % x for a long x >= 0: its decimal digits
RECURSIVE LongStr(_)
LongStr(x) ==
  LET d == DivMod10(x)
  IN IF Norm(d.q) = <<>> THEN <<Digits[d.r + 1]>>
     ELSE LongStr(Norm(d.q)) \o <<Digits[d.r + 1]>>

\* lines 58-61: a str argument is converted with long()
AsLong(a) == IF a.kind = "str" THEN ParseLong(a.val) ELSE a.val

\* decodeLongLong (lines 51-62)
decodeLongLongSwapped(low, high) ==
  PyLong(LongOr(LongAnd(AsLong(high), Mask32), LShift(AsLong(low), 32)))
decodeLongLong(low, high) ==
  PyLong(LongOr(LongAnd(AsLong(low), Mask32), LShift(AsLong(high), 32)))

\* encodeLongLong (lines 64-69): the pair (low32Bits, high32Bits)
encodeLongLong(v) == <<PyLong(LongAnd(v, Mask32)), PyLong(RShift(v, 32))>>

\* digits the values tried are made of
DigitValues == {0, 1, 2^15, Base - 1}

\* the values tried: 0 <= v < 2^64, among them 0, 2^32 - 1, 2^32, 2^64 - 1
LongValues == { Norm(<<d1, d2, d3, d4>>) : d1 \in DigitValues, d2 \in DigitValues,
                                            d3 \in DigitValues, d4 \in DigitValues }

CodecInit ==
  /\ QueryIdle
  /\ BusIdle
  /\ FrameIdle
  /\ InjectIdle
  /\ TransferIdle
  /\ ConnectIdle
  /\ CommandIdle
  /\ codecPc = "start"
  /\ long64Bits \in LongValues
  /\ encoded = <<>>
  /\ low32Bits = None
  /\ high32Bits = None
  /\ decoded = None

\* low, high = encodeLongLong(v)
Encode ==
  /\ codecPc = "start"
  /\ encoded' = encodeLongLong(long64Bits)
  /\ codecPc' = "encoded"
  /\ UNCHANGED <<long64Bits, low32Bits, high32Bits, decoded>>
  /\ UNCHANGED notCodec

\* the pair as a caller passes it on: each part as it is, or as the token
\* '%s' % part that crosses the wire
AsPassed(part) == {part, PyStr(LongStr(part.val))}

\* decodeLongLong(low, high) on the pair
Decode ==
  /\ codecPc = "encoded"
  /\ \E low \in AsPassed(encoded[1]), high \in AsPassed(encoded[2]) :
       /\ low32Bits' = low
       /\ high32Bits' = high
       /\ decoded' = decodeLongLong(low, high)
  /\ codecPc' = "decoded"
  /\ UNCHANGED <<long64Bits, encoded>>
  /\ UNCHANGED notCodec

CodecNext == Encode \/ Decode

SpecCodec == CodecInit /\ [][CodecNext]_vars

-----------------------------------------------------------------------------
(* Connecting: Connection.__init__, connect, getServerVersion,             *)
(* negotiateProtocol, the announces and close.  Each Connection is driven  *)
(* by one thread; the threads interleave between socket operations and     *)
(* share protocol.serverVersion.  A backend answers MYTH_PROTO_VERSION     *)
(* with the version it speaks.                                             *)

\* protocol.initVersion
initVersion == 8

\* the versions a backend may speak
Versions == {5, 7, 8}

\* the keys of protocol.protocols
Registered == {7, 8}

\* a message written to a socket
Message(cmd, arg) == [cmd |-> cmd, arg |-> arg]

Announces == {"ANN Playback", "ANN Monitor", "ANN FileTransfer"}

\* a socket as socket.socket() returns it, connected to host
NewSocket(kind, host, late) ==
  [kind |-> kind, host |-> host, late |-> late, sent |-> <<>>, state |-> "open",
   negotiated |-> FALSE, after |-> FALSE]

\* s.send(...) on socket s of Connection k
SendOn(k, s, m) == [socks EXCEPT ![k][s].sent = Append(@, m)]

\* the backend's reply to MYTH_PROTO_VERSION <clientVersion>
VersionReply(host, clientVersion) ==
  << IF clientVersion = hostVersion[host] THEN "ACCEPT" ELSE "REJECT",
     Str(hostVersion[host]) >>

ConnectInit ==
  /\ QueryIdle
  /\ BusIdle
  /\ FrameIdle
  /\ InjectIdle
  /\ TransferIdle
  /\ CodecIdle
  /\ CommandIdle
  /\ protocol_serverVersion = NoVersion
  /\ hostVersion \in [Backends -> Versions]
  /\ socks = [k \in Connections |-> <<>>]
  /\ conn = [k \in Connections |-> NoConnection]
  /\ cx = [k \in Connections |-> NoCall]
  /\ nConnects = 0
  /\ nCommands = 0

\* line 175: not protocol.serverVersion
NeedsProbeAlways(cached) == TRUE
NeedsProbe(cached) == cached = NoVersion

\* connect, lines 170-175: open the socket, look at the cached version
connect_begin(k, purpose, announce, host) ==
  /\ cx[k].pc \in {"idle", "raised"}
  /\ ~conn[k].closed
  /\ nConnects < MaxConnects
  /\ nConnects' = nConnects + 1
  /\ LET late == protocol_serverVersion # NoVersion
         after == \E k2 \in Connections : \E s2 \in 1..Len(socks[k2]) :
                    socks[k2][s2].negotiated
     IN /\ socks' = [socks EXCEPT ![k] =
                       Append(@, [NewSocket("connect", host, late) EXCEPT
                                    !.after = late /\ after])]
        /\ cx' = [cx EXCEPT ![k] =
                    [NoCall EXCEPT !.pc = IF NeedsProbe(protocol_serverVersion)
                                          THEN "probe" ELSE "negotiate",
                                   !.purpose = purpose,
                                   !.announce = announce,
                                   !.host = host,
                                   !.s = Len(socks[k]) + 1,
                                   !.late = late]]
  /\ UNCHANGED <<protocol_serverVersion, hostVersion, conn, nCommands>>
  /\ UNCHANGED notConnect

\* Connection.__init__ (lines 145-157) as far as its call of connect()
Connection_init(k) ==
  /\ ~conn[k].constructed
  /\ connect_begin(k, "init", "Playback", "master")

\* a method that opens a further command socket to a backend
\* (lines 458, 580, 654, 1048)
OpenCommandSocket(k) ==
  /\ conn[k].constructed
  /\ \E host \in Backends, announce \in {"Playback", "Monitor"} :
       connect_begin(k, "command", announce, host)

\* annFileTransfer, line 258
annFileTransfer_connect(k) ==
  /\ conn[k].constructed
  /\ \E host \in Backends : connect_begin(k, "filetransfer", "None", host)

\* connect, line 176, and getServerVersion (lines 194-207): a socket of its
\* own to the master backend
getServerVersion(k) ==
  /\ cx[k].pc = "probe"
  /\ LET probeReply == VersionReply("master", initVersion)
         sock == [NewSocket("probe", "master", cx[k].late) EXCEPT
                    !.sent = <<Message("MYTH_PROTO_VERSION", initVersion)>>,
                    !.state = "closed"]
     IN /\ socks' = [socks EXCEPT ![k] = Append(@, sock)]
        /\ protocol_serverVersion' = ParseInt(probeReply[2]).val
  /\ cx' = [cx EXCEPT ![k].pc = "negotiate"]
  /\ UNCHANGED <<hostVersion, conn, nConnects, nCommands>>
  /\ UNCHANGED notConnect

\* line 231
VersionTooLowOrEqual(serverVersion, clientVersion) == serverVersion <= clientVersion
VersionTooLowNever(serverVersion, clientVersion) == FALSE
VersionTooLow(serverVersion, clientVersion) == serverVersion < clientVersion

\* negotiateProtocol once the reply is read (lines 227-235)
negotiateProtocol(versionReply, clientVersion) ==
  LET serverVersion == ParseInt(versionReply[2]).val
  IN IF VersionTooLow(serverVersion, clientVersion)
     THEN [exc |-> "ProtocolException", protocolVersion |-> serverVersion,
           ret |-> NoVersion]
     ELSE [exc |-> "none", protocolVersion |-> NoVersion, ret |-> serverVersion]

\* connect, line 179: negotiateProtocol(s, protocol.serverVersion)
connect_negotiate(k) ==
  /\ cx[k].pc = "negotiate"
  /\ LET clientVersion == protocol_serverVersion
         r == negotiateProtocol(VersionReply(cx[k].host, clientVersion), clientVersion)
     IN /\ socks' = [SendOn(k, cx[k].s, Message("MYTH_PROTO_VERSION", clientVersion))
                      EXCEPT ![k][cx[k].s].negotiated = (r.exc = "none")]
        /\ cx' = [cx EXCEPT ![k].clientVersion = clientVersion,
                            ![k].serverVersion = r.ret,
                            ![k].exc = r.exc,
                            ![k].what = IF r.exc = "none" THEN "none"
                                        ELSE "Protocol mismatch",
                            ![k].protocolVersion = r.protocolVersion,
                            ![k].pc = IF r.exc = "none" THEN "lookup" ELSE "raised"]
  /\ UNCHANGED <<protocol_serverVersion, hostVersion, conn, nConnects, nCommands>>
  /\ UNCHANGED notConnect

\* lines 180-183: protocol.protocols[serverVersion] raises KeyError or not
HasProtocolAlways(serverVersion) == TRUE
HasProtocol(serverVersion) == serverVersion \in Registered

\* connect, lines 180-183: bind the protocol implementation
connect_protocol(k) ==
  /\ cx[k].pc = "lookup"
  /\ IF HasProtocol(cx[k].serverVersion)
     THEN /\ conn' = [conn EXCEPT ![k].protocol = cx[k].serverVersion]
          /\ cx' = [cx EXCEPT ![k].pc = "announce"]
     ELSE /\ cx' = [cx EXCEPT ![k].pc = "raised",
                              ![k].exc = "ProtocolException",
                              ![k].what = "Unsupported protocol"]
          /\ UNCHANGED conn
  /\ UNCHANGED <<protocol_serverVersion, hostVersion, socks, nConnects, nCommands>>
  /\ UNCHANGED notConnect

\* connect returns s to its caller: __init__ stores it in cmdSock (line 157),
\* annFileTransfer goes on to announce the transfer (line 259)
Returned(k) ==
  /\ conn' = IF cx[k].purpose = "init"
             THEN [conn EXCEPT ![k].cmdSock = cx[k].s, ![k].constructed = TRUE]
             ELSE conn
  /\ cx' = IF cx[k].purpose = "filetransfer"
           THEN [cx EXCEPT ![k].pc = "annFileTransfer"]
           ELSE [cx EXCEPT ![k] = NoCall]

\* connect, lines 185-192: announce as asked, then return the socket
connect_announce(k) ==
  /\ cx[k].pc = "announce"
  /\ IF cx[k].announce = "None"
     THEN /\ Returned(k)
          /\ UNCHANGED socks
     ELSE /\ socks' = SendOn(k, cx[k].s,
                             Message(IF cx[k].announce = "Playback"
                                     THEN "ANN Playback" ELSE "ANN Monitor", 0))
          /\ \E ok \in BOOLEAN :
               IF ok
               THEN Returned(k)
               ELSE /\ cx' = [cx EXCEPT ![k].pc = "raised",
                                        ![k].exc = "ServerException",
                                        ![k].what = "refused"]
                    /\ UNCHANGED conn
  /\ UNCHANGED <<protocol_serverVersion, hostVersion, nConnects, nCommands>>
  /\ UNCHANGED notConnect

\* annFileTransfer, lines 259-264: announce the transfer on the new socket
annFileTransfer_announce(k) ==
  /\ cx[k].pc = "annFileTransfer"
  /\ socks' = SendOn(k, cx[k].s, Message("ANN FileTransfer", 0))
  /\ \E ok \in BOOLEAN :
       cx' = IF ok THEN [cx EXCEPT ![k] = NoCall]
             ELSE [cx EXCEPT ![k].pc = "raised",
                             ![k].exc = "ServerException",
                             ![k].what = "refused"]
  /\ UNCHANGED <<protocol_serverVersion, hostVersion, conn, nConnects, nCommands>>
  /\ UNCHANGED notConnect

\* a command method: _sendRequest(self.cmdSock, ...) (as in lines 306, 314)
Command(k) ==
  /\ conn[k].constructed
  /\ ~conn[k].closed
  /\ cx[k].pc \in {"idle", "raised"}
  /\ nCommands < MaxCommands
  /\ nCommands' = nCommands + 1
  /\ socks' = SendOn(k, conn[k].cmdSock, Message("QUERY", 0))
  /\ UNCHANGED <<protocol_serverVersion, hostVersion, conn, cx, nConnects>>
  /\ UNCHANGED notConnect

\* Connection.close (lines 209-216)
close(k) ==
  /\ conn[k].constructed
  /\ ~conn[k].closed
  /\ cx[k].pc \in {"idle", "raised"}
  /\ socks' = [SendOn(k, conn[k].cmdSock, Message("DONE", 0)) EXCEPT
                 ![k][conn[k].cmdSock].state = "closed"]
  /\ conn' = [conn EXCEPT ![k].closed = TRUE]
  /\ UNCHANGED <<protocol_serverVersion, hostVersion, cx, nConnects, nCommands>>
  /\ UNCHANGED notConnect

ConnectNext ==
  \E k \in Connections :
    \/ Connection_init(k)
    \/ OpenCommandSocket(k)
    \/ annFileTransfer_connect(k)
    \/ getServerVersion(k)
    \/ connect_negotiate(k)
    \/ connect_protocol(k)
    \/ connect_announce(k)
    \/ annFileTransfer_announce(k)
    \/ Command(k)
    \/ close(k)

SpecConnect == ConnectInit /\ [][ConnectNext]_vars

-----------------------------------------------------------------------------
(* Command operations: the methods of Connection that send one request on  *)
(* the command socket with _sendRequest and interpret the reply, the       *)
(* announces, and close.  One thread uses the Connection; the backend      *)
(* answers each request it receives with one reply.                        *)

PyInt(v) == [kind |-> "int", val |-> v]

\* reply[j] of Python on what _readMsg returned: token j of a list,
\* character j of a str
Item(r, j) == IF r.kind = "str" THEN <<r.val[j + 1]>> ELSE r.val[j + 1]
HasItem(r, j) == j + 1 <= Len(r.val)

TokOK == <<"O", "K">>
TokFAILED == <<"F", "A", "I", "L", "E", "D">>

\* sre.match('^-?\d+$', token): an optional minus sign and one or more
\* digits; $ also matches before one trailing newline
MatchesInt(t) ==
  LET u == IF Len(t) > 0 /\ t[Len(t)] = "\n" THEN SubSeq(t, 1, Len(t) - 1) ELSE t
      d == IF Len(u) > 0 /\ u[1] = "-" THEN Tail(u) ELSE u
  IN Len(d) > 0 /\ \A j \in 1..Len(d) : IsDigit(d[j])

\* createChainId(): the id spawnLiveTV generates and sends
createChainId == PyStr(<<"live-zeus-2008-12-04T11:41:52">>)

\* annPlayback, annMonitor (lines 238-247) once the reply is read
annPlayback(r) == IF ~_isOk(r) THEN Raises("ServerException", r) ELSE Returns(None)
annMonitor(r) == IF ~_isOk(r) THEN Raises("ServerException", r) ELSE Returns(None)

\* annFileTransfer (lines 260-264): the reply without its OK, and the socket
annFileTransfer(r) ==
  IF ~_isOk(r) THEN Raises("ServerException", r)
  ELSE Returns([kind |-> "pair", val |-> [reply |-> Tail(r.val), socket |-> "s"]])

\* spawnLiveTV (lines 406-409), stopLiveTV (lines 419-421)
spawnLiveTV(r) == IF ~_isOk(r) THEN Raises("ServerException", r) ELSE Returns(createChainId)
stopLiveTV(r) == IF ~_isOk(r) THEN Raises("ServerException", r) ELSE Returns(None)

\* line 475: the reply for which deleteRecording publishes RECORDING_DELETED
PublishesOn(token) == MatchesInt(token)

\* deleteRecording (lines 475-481)
deleteRecording(r) ==
  IF MatchesInt(Item(r, 0)) THEN Returns(PyInt(ParseInt(Item(r, 0)).val))
  ELSE Raises("ServerException", PyStr(Item(r, 0)))

\* rerecordRecording after its FORGET_RECORDING reply (lines 497-502): rc1 is
\* what deleteRecording returned
rerecordRecording(r, rc1) ==
  IF MatchesInt(Item(r, 0)) THEN Returns(rc1)
  ELSE Raises("ServerException", PyStr(Item(r, 0)))

\* setBookmark (lines 841-848)
setBookmark(r) ==
  IF Item(r, 0) = TokOK THEN Returns(None)
  ELSE IF Item(r, 0) = TokFAILED THEN Raises("ServerException", PyStr(Item(r, 0)))
  ELSE Raises("ProtocolException", PyStr(Item(r, 0)))

\* lines 857, 858, 872
COMM_START == 4
COMM_END == 5
recSize == 3

\* program.getFrameRate()
fps == "fps"

\* mythbox.mythtv.domain: frames2seconds and CommercialBreak
frames2seconds(frames, rate) == [frames |-> frames, fps |-> rate]
CommercialBreak(start, end) == [start |-> start, end |-> end]

\* lines 877, 883: the marker tests
IsStart(marker) == marker = COMM_START
IsEnd(marker) == marker = COMM_END

\* lines 880, 886: decodeLongLong(reply[at + 1], reply[at])
FrameAtSwapped(r, at) == decodeLongLong(PyStr(Item(r, at)), PyStr(Item(r, at + 1))).val
FrameAt(r, at) == decodeLongLong(PyStr(Item(r, at + 1)), PyStr(Item(r, at))).val

\* getCommercialBreaks: the loop over pairs of records (lines 873-888)
RECURSIVE CommBreakLoop(_, _, _, _)
CommBreakLoop(r, numRecs, j, commBreaks) ==
  IF ~(j < numRecs) THEN Returns(PyList(commBreaks))
  ELSE LET baseIndex == j * recSize
       IN IF ~HasItem(r, baseIndex + 1) THEN Raises("IndexError", None)
          ELSE IF ~ParseInt(Item(r, baseIndex + 1)).ok THEN Raises("ValueError", None)
          ELSE IF ~IsStart(ParseInt(Item(r, baseIndex + 1)).val)
               THEN Raises("ProtocolException", PyInt(j + 1))
          ELSE IF ~HasItem(r, baseIndex + 3) THEN Raises("IndexError", None)
          ELSE IF ~HasItem(r, baseIndex + 4) THEN Raises("IndexError", None)
          ELSE IF ~ParseInt(Item(r, baseIndex + 4)).ok THEN Raises("ValueError", None)
          ELSE IF ~IsEnd(ParseInt(Item(r, baseIndex + 4)).val)
               THEN Raises("ProtocolException", PyInt(j + 2))
          ELSE IF ~HasItem(r, baseIndex + 6) THEN Raises("IndexError", None)
          ELSE CommBreakLoop(r, numRecs, j + 2,
                 Append(commBreaks,
                        CommercialBreak(frames2seconds(FrameAt(r, baseIndex + 2), fps),
                                        frames2seconds(FrameAt(r, baseIndex + 5), fps))))

\* getCommercialBreaks (lines 862-891)
getCommercialBreaks(r) ==
  IF ~ParseInt(Item(r, 0)).ok THEN Raises("ValueError", None)
  ELSE LET numRecs == ParseInt(Item(r, 0)).val
       IN IF numRecs = -1 THEN Returns(PyList(<<>>))
          ELSE IF numRecs % 2 # 0 THEN Raises("ClientException", PyInt(numRecs))
          ELSE CommBreakLoop(r, numRecs, 0, <<>>)

\* the socket calls of _sendRequest (lines 1162-1165)
_sendRequestNoRead == <<"_sendMsg">>
_sendRequest == <<"_sendMsg", "_readMsg">>

\* the socket calls of Connection.close (lines 211-213)
Connection_closeShutdownFirst == <<"shutdown", "_sendMsg", "close">>
Connection_close == <<"_sendMsg", "shutdown", "close">>

\* close, and ConnectionFactory.destroy (lines 1190-1192), which calls it
CloseOps == {"close", "destroy"}

Operations == {"annPlayback", "annMonitor", "annFileTransfer", "spawnLiveTV",
               "stopLiveTV", "deleteRecording", "rerecordRecording", "setBookmark",
               "getCommercialBreaks"} \cup CloseOps

\* annFileTransfer sends and reads on the socket it has just connected
\* (lines 257-259); every other operation uses the command socket
OnCmdSock(name) == name # "annFileTransfer"

\* the socket calls an operation makes, in order (annFileTransfer: lines
\* 258-259; rerecordRecording: lines 495, 497)
Calls(name) ==
  IF name \in CloseOps THEN Connection_close
  ELSE IF name = "annFileTransfer" THEN <<"_sendMsg", "_readMsg">>
  ELSE IF name = "rerecordRecording" THEN _sendRequest \o _sendRequest
  ELSE _sendRequest

\* what the operation does with the reply to its request
Interpret(name, r, before) ==
  CASE name = "annPlayback" -> annPlayback(r)
    [] name = "annMonitor" -> annMonitor(r)
    [] name = "annFileTransfer" -> annFileTransfer(r)
    [] name = "spawnLiveTV" -> spawnLiveTV(r)
    [] name = "stopLiveTV" -> stopLiveTV(r)
    [] name = "deleteRecording" -> deleteRecording(r)
    [] name = "rerecordRecording" ->
         IF before.kind = "pending" THEN rerecordRecording(r, before.val)
         ELSE LET d == deleteRecording(r)
              IN IF d.kind = "return" THEN [d EXCEPT !.kind = "pending"] ELSE d
    [] name = "setBookmark" -> setBookmark(r)
    [] OTHER -> getCommercialBreaks(r)

\* the request whose reply publishes: DELETE_RECORDING
Deletes(name, before) ==
  name = "deleteRecording" \/ (name = "rerecordRecording" /\ before.kind # "pending")

\* first tokens of replies
FirstTokens == { TokOK, <<"o", "k">>, <<"O", "k">>, TokFAILED, <<"1">>, <<"0">>,
                 <<"-", "1">>, <<"-", "3">>, <<"1", "2">>, <<"-">>, <<"+", "1">>, <<"1", "a">>,
                 <<"O", "K", "A", "Y">>, <<>> }

\* replies of one or two tokens
ShortReplies ==
  { <<t>> : t \in FirstTokens } \cup { <<t, <<"7">>>> : t \in {TokOK, <<"1">>, <<"1", "2">>} }

\* the reply to ANN FileTransfer: OK, handle, size high, size low
FileTransferReplies == { <<TokOK, <<"3", "7">>, <<"0">>, <<"5">>>> }

\* comm break records: marker, high, low
Markers == {<<"4">>, <<"5">>, <<"6">>, <<"x">>}
CommBreakRecords ==
  { <<m, f[1], f[2]>> : m \in Markers,
                        f \in {<< <<"0">>, <<"3", "0">> >>, << <<"1">>, <<"5">> >>} }
LaterRecords == { <<m, <<"2">>, <<"9">> >> : m \in Markers }

\* replies to QUERY_COMMBREAK announcing 2, 3 and 4 records
CommBreakReplies ==
  { << <<"2">> >> \o a \o c : a \in CommBreakRecords, c \in CommBreakRecords }
  \cup { << <<"3">> >> \o a \o c \o a : a \in CommBreakRecords, c \in CommBreakRecords }
  \cup { << <<"4">> >> \o a \o c \o d \o e :
           a \in CommBreakRecords, c \in CommBreakRecords,
           d \in LaterRecords, e \in LaterRecords }

\* the token lists the backend may send in reply
RepliesFor(name) ==
  IF name = "getCommercialBreaks" THEN ShortReplies \cup CommBreakReplies
  ELSE IF name = "annFileTransfer" THEN ShortReplies \cup FileTransferReplies
  ELSE ShortReplies

\* what _readMsg makes of the bytes that arrive: the token list of a framed
\* reply, the str 'OK' of a bare acknowledgment (line 1112), or a ValueError
\* for a length field that is not a number (line 1114)
Arrivals(name) ==
  { [how |-> "framed", toks |-> t] : t \in RepliesFor(name) }
    \cup { [how |-> "bare", toks |-> <<TokOK>>], [how |-> "junk", toks |-> <<>>] }
Read(a) ==
  IF a.how = "bare" THEN OkReply
  ELSE IF a.how = "junk" THEN PyExc("ValueError")
  ELSE PyList(a.toks)

CommandInit ==
  /\ QueryIdle
  /\ BusIdle
  /\ FrameIdle
  /\ InjectIdle
  /\ TransferIdle
  /\ CodecIdle
  /\ ConnectIdle
  /\ opName = "none"
  /\ opStep = 0
  /\ cmdReply = None
  /\ outcome = NoOutcome
  /\ sendFailed = FALSE
  /\ wireLog = <<>>
  /\ sockState = "open"
  /\ published = <<>>
  /\ nOps = 0

\* the operation has returned or raised
Ended == outcome.kind \in {"return", "raise"}

\* the operation is at socket call c
At(c) ==
  /\ opName # "none"
  /\ ~Ended
  /\ opStep <= Len(Calls(opName))
  /\ Calls(opName)[opStep] = c

\* close returns when its last socket call is made
AfterCall ==
  IF opStep + 1 > Len(Calls(opName)) /\ opName \in CloseOps
  THEN Returns(None) ELSE outcome

\* a thread calls an operation of the Connection
Begin ==
  /\ opName = "none"
  /\ nOps < MaxOps
  /\ \E name \in Operations :
       /\ name \in CloseOps => sockState = "open"
       /\ opName' = name
  /\ opStep' = 1
  /\ nOps' = nOps + 1
  /\ UNCHANGED <<cmdReply, outcome, sendFailed, wireLog, sockState, published>>
  /\ UNCHANGED notCommand

\* _sendMsg (lines 1153-1160): a socket error of s.send is logged and dropped
_sendMsg ==
  /\ At("_sendMsg")
  /\ \E raises \in BOOLEAN :
       LET sent == (sockState = "open" \/ ~OnCmdSock(opName)) /\ ~raises
       IN /\ wireLog' = IF sent /\ OnCmdSock(opName)
                        THEN Append(wireLog, IF opName \in CloseOps THEN "DONE"
                                             ELSE "request")
                        ELSE wireLog
          /\ sendFailed' = ~sent
  /\ opStep' = opStep + 1
  /\ outcome' = AfterCall
  /\ UNCHANGED <<opName, cmdReply, sockState, published, nOps>>
  /\ UNCHANGED notCommand

\* _readMsg (lines 1104-1128) and what the operation does with the reply.
\* The backend answers a request it received; on a socket that is closed, or
\* whose write failed, recv raises.
_readMsg ==
  /\ At("_readMsg")
  /\ IF (sockState # "open" /\ OnCmdSock(opName)) \/ sendFailed
     THEN /\ outcome' = Raises("socket.error", None)
          /\ cmdReply' = None
          /\ UNCHANGED <<wireLog, published>>
     ELSE \E a \in Arrivals(opName) :
            LET r == Read(a) IN
            /\ wireLog' = IF OnCmdSock(opName) THEN Append(wireLog, "reply")
                           ELSE wireLog
            /\ IF r.kind = "exception"
               THEN /\ outcome' = Raises(r.val, None)
                    /\ cmdReply' = None
                    /\ UNCHANGED published
               ELSE /\ cmdReply' = r
                    /\ outcome' = Interpret(opName, r, outcome)
                    /\ published' =
                         IF Deletes(opName, outcome) /\ PublishesOn(Item(r, 0))
                         THEN Append(published, [id |-> "RECORDING_DELETED",
                                                 rc |-> Item(r, 0)])
                         ELSE published
  /\ opStep' = opStep + 1
  /\ UNCHANGED <<opName, sendFailed, sockState, nOps>>
  /\ UNCHANGED notCommand

\* close, line 212: cmdSock.shutdown(socket.SHUT_RDWR)
Socket_shutdown ==
  /\ At("shutdown")
  /\ sockState' = "shutdown"
  /\ opStep' = opStep + 1
  /\ outcome' = AfterCall
  /\ UNCHANGED <<opName, cmdReply, sendFailed, wireLog, published, nOps>>
  /\ UNCHANGED notCommand

\* close, line 213: cmdSock.close()
Socket_close ==
  /\ At("close")
  /\ sockState' = "closed"
  /\ opStep' = opStep + 1
  /\ outcome' = AfterCall
  /\ UNCHANGED <<opName, cmdReply, sendFailed, wireLog, published, nOps>>
  /\ UNCHANGED notCommand

\* the operation is over: its caller has the result or the exception
Finish ==
  /\ opName # "none"
  /\ Ended \/ opStep > Len(Calls(opName))
  /\ opName' = "none"
  /\ opStep' = 0
  /\ cmdReply' = None
  /\ outcome' = NoOutcome
  /\ sendFailed' = FALSE
  /\ UNCHANGED <<wireLog, sockState, published, nOps>>
  /\ UNCHANGED notCommand

CommandNext ==
  \/ Begin
  \/ _sendMsg
  \/ _readMsg
  \/ Socket_shutdown
  \/ Socket_close
  \/ Finish

SpecCommand == CommandInit /\ [][CommandNext]_vars

-----------------------------------------------------------------------------
(* Queries: methods of Connection that send one request and build their    *)
(* result from the tokens of the reply.  The reply is an input; the method *)
(* is applied to it in one step.                                           *)

\* protocol.recordSize() of the negotiated protocol: tokens per record
protocol_recordSize == 2

\* l[from:to] of Python for 0 <= from <= to
Slice(l, from, to) == SubSeq(l, Min(from, Len(l)) + 1, Min(to, Len(l)))

\* mythbox.mythtv.domain.RecordedProgram(data, ...)
RecordedProgram(data) == [data |-> data]

\* RecordedProgram.getRecordingStatus(), getRecordingGroup(): a field of the
\* record (the model takes its first token)
FieldOf(program) == IF Len(program.data) > 0 THEN program.data[1] ELSE <<>>

\* lines 685, 747, 764: offset += recordSize
NextOffsetOverlapping(offset) == offset + protocol_recordSize - 1
NextOffset(offset) == offset + protocol_recordSize

\* the loops of lines 677-685, 738-747 and 761-764: cnt records, each the
\* slice reply[offset:offset + recordSize]
RECURSIVE BuildRecords(_, _, _)
BuildRecords(toks, cnt, offset) ==
  IF cnt <= 0 THEN <<>>
  ELSE <<RecordedProgram(Slice(toks, offset, offset + protocol_recordSize))>>
         \o BuildRecords(toks, cnt - 1, NextOffset(offset))

\* getScheduledRecordings (lines 672-686)
getScheduledRecordings(toks) ==
  IF ~ParseInt(toks[1]).ok THEN Raises("ValueError", None)
  ELSE LET built == BuildRecords(toks, ParseInt(toks[1]).val, 1)
       IN Returns([built |-> built, programs |-> built])

\* getUpcomingRecordings (lines 728-748): the records whose status is in
\* filter are returned
getUpcomingRecordings(toks, filter) ==
  IF Len(toks) < 2 THEN Raises("IndexError", None)
  ELSE IF ~ParseInt(toks[2]).ok THEN Raises("ValueError", None)
  ELSE LET built == BuildRecords(toks, ParseInt(toks[2]).val, 2)
       IN Returns([built |-> built,
                   programs |-> SelectSeq(built, LAMBDA r : FieldOf(r) \in filter)])

\* getAllRecordings (lines 755-767): reply.pop(0) takes the count off, the
\* records are sliced from offset 0 of what is left; the LiveTV group is
\* filtered out and the rest sorted by start time, latest first (the order
\* is RecordedProgram's; programs lists them as built)
getAllRecordings(toks) ==
  IF ~ParseInt(toks[1]).ok THEN Raises("ValueError", None)
  ELSE LET built == BuildRecords(Tail(toks), ParseInt(toks[1]).val, 0)
       IN Returns([built |-> built,
                   programs |-> SelectSeq(built, LAMBDA r : FieldOf(r) # <<"L">>)])

\* mythbox.mythtv.enums.TVState
TVState == [OK |-> 0, Error |-> -1, WatchingLiveTV |-> 1, WatchingPreRecorded |-> 2,
            WatchingRecording |-> 3, RecordingOnly |-> 4, ChangingState |-> 5]

\* line 354: the states in which the tuner is recording or being watched
Showing(tvState) ==
  tvState \in {TVState.WatchingLiveTV, TVState.RecordingOnly,
               TVState.WatchingPreRecorded, TVState.WatchingRecording}

\* getTunerShowing (lines 345-360).  A tuner is [tunerId, tvState, title]:
\* its id, the state its GET_STATE reply carries and the title of the
\* program getCurrentRecording gives for it.
RECURSIVE getTunerShowing(_, _)
getTunerShowing(tuners, showName) ==
  IF tuners = <<>> THEN Returns(PyInt(-1))
  ELSE LET tuner == Head(tuners)
       IN IF tuner.tvState = TVState.OK THEN Returns(PyInt(-1))
          ELSE IF tuner.tvState = TVState.Error THEN Returns(PyInt(-1))
          ELSE IF Showing(tuner.tvState)
          THEN IF showName = tuner.title THEN Returns(PyInt(tuner.tunerId))
               ELSE getTunerShowing(Tail(tuners), showName)
          ELSE Returns(PyInt(-1))

\* what db().getTuners() may return: up to MaxTuners tuners, numbered in order
TunerStates ==
  { [tvState |-> v, title |-> t] :
      v \in {TVState.OK, TVState.Error, TVState.WatchingLiveTV, TVState.RecordingOnly,
             TVState.ChangingState},
      t \in {"show", "other"} }
TunerLists ==
  { [j \in 1..k |-> [tunerId |-> j, tvState |-> f[j].tvState, title |-> f[j].title]] :
      k \in 0..MaxTuners, f \in [1..MaxTuners -> TunerStates] }

\* s.send(data) (line 1157): the socket takes all of data or, when its buffer
\* is short, only a leading part of at least one byte; or the call raises
socket_send(data, how) ==
  IF how.raises THEN [raised |-> TRUE, taken |-> <<>>]
  ELSE [raised |-> FALSE, taken |-> SubSeq(data, 1, Max(1, Len(data) - how.short))]

\* _sendMsg (lines 1153-1160): one send of the frame, whose count of bytes
\* taken is not looked at; an exception of the send is logged and dropped
sendMsg(req, how) ==
  [outcome |-> Returns(None), taken |-> socket_send(_buildMsg(req), how).taken]

\* how the socket may behave on one send
SendBehaviours == { [raises |-> r, short |-> k] : r \in BOOLEAN, k \in {0, 1, FieldWidth} }

\* setBookmark, lines 837-838: the words of the command it sends.  chanId and
\* starttimets stand for program.getChannelId() and program.starttimets()
setBookmark_command(frameNumber) ==
  LET lowWord == encodeLongLong(frameNumber)[1]
      highWord == encodeLongLong(frameNumber)[2]
  IN << <<"S", "E", "T", "_", "B", "O", "O", "K", "M", "A", "R", "K">>,
        <<"c", "h", "a", "n", "I", "d">>,
        <<"s", "t", "a", "r", "t", "t", "i", "m", "e", "t", "s">>,
        LongStr(highWord.val), LongStr(lowWord.val) >>

\* getBookmark, lines 826-829: the frame number decoded from the reply
getBookmarkLowFirst(toks) ==
  Returns(decodeLongLong(PyLong(ParseLong(toks[1])), PyLong(ParseLong(toks[2]))))
getBookmark(toks) ==
  Returns(decodeLongLong(PyLong(ParseLong(toks[2])), PyLong(ParseLong(toks[1]))))

\* record tokens
FieldTokens == { <<"L">>, <<"R">> }

\* the tokens after the counts: up to one more than MaxRecords records need
RecordTokens ==
  UNION { [1..k -> FieldTokens] : k \in 0..(MaxRecords * protocol_recordSize + 1) }

\* count tokens
CountTokens == { Str(c) : c \in 0..MaxRecords } \cup { <<"-", "1">>, <<"x">> }

\* replies to QUERY_GETALLSCHEDULED and QUERY_RECORDINGS: count, records
CountedReplies == { <<c>> \o body : c \in CountTokens, body \in RecordTokens }

\* replies to QUERY_GETALLPENDING: a token, count, records
PendingReplies ==
  { << <<"0">>, c >> \o body : c \in CountTokens, body \in RecordTokens }
    \cup { << <<"0">> >> }

QueryNames == {"getScheduledRecordings", "getUpcomingRecordings", "getAllRecordings",
               "getTunerShowing", "_sendMsg", "bookmark"}

\* the arguments and replies a query is checked on
QueryArgs(name) ==
  IF name = "bookmark"
  THEN { [frameNumber |-> f] : f \in LongValues }
  ELSE IF name = "_sendMsg"
  THEN { [req |-> m, how |-> h] : m \in TokenLists, h \in SendBehaviours }
  ELSE IF name = "getTunerShowing"
  THEN { [tuners |-> l, showName |-> "show"] : l \in TunerLists }
  ELSE IF name = "getUpcomingRecordings"
  THEN { [reply |-> r, filter |-> f] : r \in PendingReplies,
                                        f \in { {<<"R">>}, {<<"L">>, <<"R">>} } }
  ELSE { [reply |-> r, filter |-> {}] : r \in CountedReplies }

QueryInit ==
  /\ FrameIdle
  /\ InjectIdle
  /\ TransferIdle
  /\ CodecIdle
  /\ ConnectIdle
  /\ CommandIdle
  /\ BusIdle
  /\ \E name \in QueryNames :
       /\ queryName = name
       /\ queryArg \in QueryArgs(name)
  /\ queryResult = NoOutcome
  /\ sockOut = <<>>

\* the method name is called and ends with outcome o
Query(name, o) ==
  /\ queryName = name
  /\ queryResult = NoOutcome
  /\ queryResult' = o
  /\ UNCHANGED <<queryName, queryArg, sockOut>>
  /\ UNCHANGED notQuery

Call_getScheduledRecordings ==
  Query("getScheduledRecordings", getScheduledRecordings(queryArg.reply))

Call_getUpcomingRecordings ==
  Query("getUpcomingRecordings", getUpcomingRecordings(queryArg.reply, queryArg.filter))

Call_getAllRecordings ==
  Query("getAllRecordings", getAllRecordings(queryArg.reply))

Call_getTunerShowing ==
  Query("getTunerShowing", getTunerShowing(queryArg.tuners, queryArg.showName))

Call_sendMsg ==
  /\ queryName = "_sendMsg"
  /\ queryResult = NoOutcome
  /\ queryResult' = sendMsg(queryArg.req, queryArg.how).outcome
  /\ sockOut' = sendMsg(queryArg.req, queryArg.how).taken
  /\ UNCHANGED <<queryName, queryArg>>
  /\ UNCHANGED notQuery

\* setBookmark(program, frameNumber) writes its command
Call_setBookmark ==
  /\ queryName = "bookmark"
  /\ queryResult = NoOutcome
  /\ sockOut = <<>>
  /\ sockOut' = setBookmark_command(queryArg.frameNumber)
  /\ UNCHANGED <<queryName, queryArg, queryResult>>
  /\ UNCHANGED notQuery

\* getBookmark(program) afterwards; the backend answers QUERY_BOOKMARK with
\* the two words it stored, in the order SET_BOOKMARK carried them
Call_getBookmark ==
  /\ queryName = "bookmark"
  /\ queryResult = NoOutcome
  /\ sockOut # <<>>
  /\ queryResult' = getBookmark(<<sockOut[4], sockOut[5]>>)
  /\ UNCHANGED <<queryName, queryArg, sockOut>>
  /\ UNCHANGED notQuery

QueryNext ==
  \/ Call_setBookmark
  \/ Call_getBookmark
  \/ Call_sendMsg
  \/ Call_getTunerShowing
  \/ Call_getScheduledRecordings
  \/ Call_getUpcomingRecordings
  \/ Call_getAllRecordings

SpecQuery == QueryInit /\ [][QueryNext]_vars

-----------------------------------------------------------------------------
(* The event bus: EventBus (bus.py).  Listeners are registered and          *)
(* deregistered, events are published; a listener handling an event may     *)
(* return, raise, or deregister itself or another listener.                 *)

Listener == {"l1", "l2", "l3"}

\* list.remove(x): the list without the first x; ValueError when x is absent
list_remove(lst, x) ==
  IF \E j \in 1..Len(lst) : lst[j] = x
  THEN LET at == CHOOSE j \in 1..Len(lst) : lst[j] = x /\ \A m \in 1..(j - 1) : lst[m] # x
       IN [exc |-> "none", list |-> SubSeq(lst, 1, at - 1) \o SubSeq(lst, at + 1, Len(lst))]
  ELSE [exc |-> "ValueError", list |-> lst]

\* EventBus.deregister (lines 38-42): the ValueError is caught and logged
EventBus_deregister(lst, x) == [raised |-> FALSE, list |-> list_remove(lst, x).list]

\* what listener.onEvent(event) may do
Handlers ==
  { [does |-> d, whom |-> x] : d \in {"returns", "raises"}, x \in {"none"} }
  \cup { [does |-> "deregisters", whom |-> x] : x \in Listener }

BusInit ==
  /\ FrameIdle
  /\ InjectIdle
  /\ TransferIdle
  /\ CodecIdle
  /\ ConnectIdle
  /\ CommandIdle
  /\ QueryIdle
  /\ listeners = <<>>
  /\ busPc = "idle"
  /\ pubIndex = 0
  /\ atStart = <<>>
  /\ delivered = <<>>
  /\ busRaised = FALSE
  /\ nBus = 0

\* a call from outside a publish
BusCall ==
  /\ busPc \in {"idle", "published"}
  /\ nBus < MaxBusCalls
  /\ nBus' = nBus + 1

\* EventBus.register (lines 35-36)
register(x) ==
  /\ BusCall
  /\ Len(listeners) < MaxListeners
  /\ listeners' = Append(listeners, x)
  /\ busPc' = "idle"
  /\ UNCHANGED <<pubIndex, atStart, delivered, busRaised>>
  /\ UNCHANGED notBus

\* EventBus.deregister (lines 38-42), called outside a publish
deregister(x) ==
  /\ BusCall
  /\ listeners' = EventBus_deregister(listeners, x).list
  /\ busRaised' = (busRaised \/ EventBus_deregister(listeners, x).raised)
  /\ busPc' = "idle"
  /\ UNCHANGED <<pubIndex, atStart, delivered>>
  /\ UNCHANGED notBus

\* EventBus.publish, line 49: the for loop starts on self.listeners itself
publish_begin ==
  /\ BusCall
  /\ busPc' = "publish"
  /\ pubIndex' = 0
  /\ atStart' = listeners
  /\ delivered' = <<>>
  /\ UNCHANGED <<listeners, busRaised>>
  /\ UNCHANGED notBus

\* lines 49-53, one pass of the loop: the list iterator yields the entry at
\* its position in the list as it is now and moves on; onEvent runs, and
\* whatever it raises is logged
publish_deliver ==
  /\ busPc = "publish"
  /\ pubIndex < Len(listeners)
  /\ pubIndex' = pubIndex + 1
  /\ delivered' = Append(delivered, listeners[pubIndex + 1])
  /\ \E h \in Handlers :
       IF h.does = "deregisters"
       THEN listeners' = EventBus_deregister(listeners, h.whom).list
       ELSE listeners' = listeners
  /\ UNCHANGED <<busPc, atStart, busRaised, nBus>>
  /\ UNCHANGED notBus

\* line 49: the iterator is exhausted, publish returns
publish_end ==
  /\ busPc = "publish"
  /\ ~(pubIndex < Len(listeners))
  /\ busPc' = "published"
  /\ UNCHANGED <<listeners, pubIndex, atStart, delivered, busRaised, nBus>>
  /\ UNCHANGED notBus

BusNext ==
  \/ \E x \in Listener : register(x)
  \/ \E x \in Listener : deregister(x)
  \/ publish_begin
  \/ publish_deliver
  \/ publish_end

SpecBus == BusInit /\ [][BusNext]_vars

-----------------------------------------------------------------------------
(* Properties of the pool binding *)

\* the Connections the pool has handed to thread t and not got back
HeldBy(t) == { c \in Conns : pool[c] = t }

\* the invocations thread t is inside of that took the pool path
PoolFrames(t) == { k \in 1..Len(stack[t]) : stack[t][k].pc # "direct" }

\* C1: when the outermost injected call of a thread took the pool path and
\* injected calls were nested in it, the whole call makes one checkout and
\* one checkin: every nested invocation finds the Connection acquired, and
\* the checkin is made when the outermost invocation leaves, with the
\* Connection that was checked out.
C1_NestedOnePair ==
  \A t \in Threads :
    (g[t].pooled /\ g[t].deep >= 2) =>
      /\ g[t].nOut = 1
      /\ \A k \in PoolFrames(t) : k >= 2 => stack[t][k].alreadyAcquired
      /\ IF stack[t] = <<>>
         THEN g[t].nIn = 1 /\ g[t].gave = g[t].relOf /\ g[t].relOf # "none"
         ELSE g[t].nIn = 0 /\ HeldBy(t) = {stack[t][1].held}

C1_Witness ==
  \E t \in Threads :
    /\ g[t].pooled
    /\ g[t].deep >= 2
    /\ stack[t] = <<>>
    /\ g[t].nOut = 1
    /\ g[t].nIn = 1

\* C2: an invocation that checked a Connection out checks that Connection
\* in when it leaves, whether the wrapped method returned or raised, and
\* leaves the way the wrapped method ended.
C2_CheckinOnEveryExit ==
  \A t \in Threads :
    g[t].relOf # "none" =>
      /\ g[t].gave = g[t].relOf
      /\ g[t].exit = g[t].func
      /\ pool[g[t].relOf] # t

C2_Witness ==
  \E t \in Threads :
    /\ g[t].relOf \in Conns
    /\ g[t].func = "raise"
    /\ g[t].exit = "raise"
    /\ g[t].gave = g[t].relOf
    /\ pool[g[t].relOf] = "idle"

\* C3: what self.conn() returns inside a thread is the Connection that
\* thread checked out and holds, also when another thread's call has put its
\* accessor on the same target; two threads never hold the same Connection.
C3_OwnConnection ==
  \A t \in Threads :
    g[t].seen # "none" =>
      /\ g[t].seen \in Conns
      /\ pool[g[t].seen] = t
      /\ g[t].seen = threadlocals[t]
      /\ \E k \in PoolFrames(t) : stack[t][k].held = g[t].seen
      /\ g[t].nOut >= 1
      /\ \A u \in Threads \ {t} : g[u].seen # g[t].seen

C3_Witness ==
  \E t \in Threads, u \in Threads :
    /\ t # u
    /\ g[t].seen \in Conns
    /\ g[u].seen \in Conns
    /\ g[t].via = u
    /\ Top(t).self = Top(u).self

\* C4: a thread holds at most one Connection of the pool at a time; once a
\* thread is outside every injected call its slot holds no Connection (it is
\* None, or was never assigned), and the first invocation on the pool path
\* that a thread enters does not find a Connection acquired.
NoConn(slot) == slot \in {"missing", "unset", "None"}
C4_OnePerThread ==
  \A t \in Threads :
    /\ Cardinality(HeldBy(t)) <= 1
    /\ stack[t] = <<>> => (NoConn(threadlocals[t]) /\ HeldBy(t) = {})
    /\ \A k \in PoolFrames(t) :
         (\A j \in PoolFrames(t) : k <= j) => ~stack[t][k].alreadyAcquired

C4_Witness ==
  \E t \in Threads :
    /\ calls[t] = 2
    /\ \A u \in Threads \ {t} : calls[u] = 0
    /\ Len(stack[t]) = 1
    /\ Top(t).pc = "body"
    /\ ~Top(t).alreadyAcquired
    /\ g[t].nOut = 1
    /\ threadlocals[t] = "c2"
    /\ pool["c1"] = "idle"

-----------------------------------------------------------------------------
(* Properties of the file transfer *)

CeilDiv(x, y) == (x + y - 1) \div y

\* the file holds exactly the first k bytes of the remote file, in order
HoldsPrefix(k) ==
  IF k = 0 THEN written = <<>> ELSE written = <<[lo |-> 0, hi |-> k]>>

\* the data socket will not deliver the rest of the file: a block request was
\* never sent, or the peer closed the data socket before the end of the file
Starved == lost \/ (dataEof /\ dataPos + dataAvail < filesize)

\* C10: for every file size above zero and every way the data socket cuts
\* the stream into partial reads, the transfer writes exactly the bytes of
\* the file, in the order received, asks for ceil(size / 2000000) blocks,
\* reads one acknowledgment per block, and ends returning True.
C10_Transfer ==
  /\ [](tfPc \in {"loop", "recv", "ack"} =>
          HoldsPrefix(filesize - remainingBytes
                      + IF tfPc = "loop" THEN 0 ELSE blockTransferred))
  /\ []((tfPc = "returned" /\ filesize # 0) =>
          /\ HoldsPrefix(filesize)
          /\ Len(requests) = CeilDiv(filesize, maxBlockSize)
          /\ acksRead = Len(requests)
          /\ cmdPending = 0
          /\ remainingBytes = 0
          /\ fh = "closed"
          /\ rc = TRUE)
  /\ (tfPc = "loop") ~> (tfPc = "returned" \/ Starved)

C10_Witness ==
  /\ tfPc = "returned"
  /\ filesize = 5000000
  /\ Len(requests) = 3
  /\ acksRead = 3
  /\ shortReads >= 2
  /\ maxReceived = 1000000
  /\ HoldsPrefix(5000000)
  /\ rc = TRUE

\* C11: when a read of the data socket returns zero bytes before the block
\* is complete, the block-read loop ends instead of reading again: the
\* data socket is never read a second time after it returned nothing.
C11_NoBusyLoop == zeroReads <= 1

\* C12: every block request of a transfer, the first and the later ones,
\* names the handle the announce returned and asks for
\* min(bytes remaining, 2000000) bytes, more than 0 and at most 2000000.
C12_RequestForm ==
  \A k \in 1..Len(requests) :
    /\ requests[k].handle = HandleToken
    /\ requests[k].size = Min(filesize - (k - 1) * maxBlockSize, maxBlockSize)
    /\ 0 < requests[k].size
    /\ requests[k].size <= maxBlockSize

\* C13: per block the request is sent, then exactly blockSize bytes are
\* read from the data socket, then one acknowledgment is read, and only
\* then is the next request sent; never are two requests outstanding.
C13_BlockOrder ==
  /\ Len(requests) - acksRead \in {0, 1}
  /\ tfPc = "loop" =>
        /\ Len(requests) = acksRead
        /\ dataPos = filesize - remainingBytes
  /\ tfPc = "recv" =>
        /\ ~lost => Len(requests) = acksRead + 1
        /\ blockTransferred < blockSize
        /\ dataPos = filesize - remainingBytes + blockTransferred
  /\ tfPc = "ack" =>
        /\ ~lost => Len(requests) = acksRead + 1
        /\ blockTransferred = blockSize
        /\ dataPos = filesize - remainingBytes + blockSize

C13_Witness ==
  /\ tfPc = "ack"
  /\ Len(requests) = 2
  /\ acksRead = 1
  /\ shortReads >= 1
  /\ blockTransferred = maxBlockSize

\* C14 as stated: when transferFile returns, the data socket and the
\* command socket are both closed, with the master backend (the command
\* socket is cmdSock) as with a slave backend.
C14_BothClosed ==
  tfPc = "returned" =>
    /\ sockets["dataSocket"] = "closed"
    /\ sockets[commandSocket] = "closed"

\* C14 amended: when transferFile returns, the data socket is closed; the
\* command socket is closed exactly when it was opened for this transfer
\* (slave backend), and the Connection's own cmdSock stays open.
C14_ClosesOwnSockets ==
  tfPc = "returned" =>
    /\ sockets["dataSocket"] = "closed"
    /\ sockets["cmdSock"] = "open"
    /\ (backendHost = "slave") =>
          (commandSocket = "slaveSock" /\ sockets["slaveSock"] = "closed")
    /\ (backendHost = "master") =>
          (commandSocket = "cmdSock" /\ sockets["slaveSock"] = "none")

C14_Witness ==
  /\ tfPc = "returned"
  /\ backendHost = "master"
  /\ commandSocket = "cmdSock"
  /\ sockets["cmdSock"] = "open"
  /\ sockets["dataSocket"] = "closed"
  /\ acksRead = 2

-----------------------------------------------------------------------------
(* Properties of framing and reply reading *)

\* the separator occurs in the joined payload of m only where join put it
JoinPositions(m) == { Len(Join(SubSeq(m, 1, k))) + 1 : k \in 1..(Len(m) - 1) }
SepOnlyAtJoins(m) ==
  { p \in 1..Len(Join(m)) : SepAt(Join(m), p) } = JoinPositions(m)
NoTokenHasSep(m) ==
  \A k \in 1..Len(m) : \A p \in 1..Len(m[k]) : ~SepAt(m[k], p)

\* _readMsg returned after the peer wrote the whole frame of msg
ReadBack == pc = "returned" /\ peer = "echo"

\* C5 as stated: for every token list whose tokens do not contain the
\* separator, the empty list included, _readMsg gives back the list that
\* _buildMsg framed.
C5_RoundTripAllLists ==
  (ReadBack /\ NoTokenHasSep(msg)) =>
     (result.kind = "list" /\ result.val = msg)

\* C5 amended: for every non-empty token list in whose joined payload the
\* separator occurs only at the places join put it, _readMsg gives back the
\* list that _buildMsg framed; the empty list reads back as [''].
C5_RoundTrip ==
  /\ (ReadBack /\ Len(msg) >= 1 /\ SepOnlyAtJoins(msg)) =>
        (result.kind = "list" /\ result.val = msg)
  /\ (ReadBack /\ Len(msg) = 0) =>
        (result.kind = "list" /\ result.val = << <<>> >>)

C5_Witness ==
  /\ ReadBack
  /\ Len(msg) = 2
  /\ msg[1] = <<"O", "K">>
  /\ msg[2] = <<"[", "]", ":">>
  /\ SepOnlyAtJoins(msg)
  /\ partial
  /\ result.kind = "list"
  /\ result.val = msg

C7_PartialReads ==
  peer = "echo" =>
    /\ consumed <= FieldWidth + Len(Join(msg))
    /\ nEof = 0
    /\ (pc \in {"header", "payload"} /\ ~raDone) => sockIn # <<>>
    /\ pc = "raised" => result = PyExc("socket.error")
    /\ pc = "returned" =>
         /\ n = Len(Join(msg))
         /\ result.kind = "list"
         /\ result.val = Split(Join(msg))
         /\ consumed = FieldWidth + n

C7_Witness ==
  /\ ReadBack
  /\ partial
  /\ Len(wire) > Len(frame)
  /\ n >= 10
  /\ consumed = FieldWidth + n
  /\ Len(result.val) = 3

\* C8 as stated: when the peer closes after the header and before the whole
\* payload, _readMsg fails; once the socket has reported end of stream the
\* reader is never back in a receive loop.
C8_FailsOnClose ==
  (peer = "cut" /\ Len(wire) >= FieldWidth /\ nEof >= 1 /\ ~raDone) =>
     pc = "raised"

\* C9 as stated: a header that reads as OK makes _readMsg return the token
\* list ['OK'], which _isOk accepts.
C9_OkIsTokenList ==
  (pc = "returned" /\ Upper(retMsg) = <<"O", "K">>) =>
     /\ result.kind = "list"
     /\ result.val = << <<"O", "K">> >>
     /\ _isOk(result)

-----------------------------------------------------------------------------
(* Properties of the long-integer codec *)

\* 2^32 as a long
TwoTo32 == <<0, 0, 1>>

\* x * 2^32, by long multiplication with the digits of 2^32
TimesTwoTo32(x) ==
  LongAdd(LongMulSmall(x, TwoTo32[1]),
          LongAdd(LShift(LongMulSmall(x, TwoTo32[2]), 16),
                  LShift(LongMulSmall(x, TwoTo32[3]), 32)))

\* x < 2^32
Below32(x) == Len(Norm(x)) <= 2

\* C15: for 0 <= v < 2^64, encodeLongLong(v) is (v mod 2^32, v div 2^32),
\* that is low < 2^32, high < 2^32 and low + high * 2^32 = v, and
\* decodeLongLong gives v back from the pair, passed as integers or as
\* decimal-string tokens.
C15_Codec ==
  /\ codecPc \in {"encoded", "decoded"} =>
       /\ encoded[1].kind = "long"
       /\ encoded[2].kind = "long"
       /\ Below32(encoded[1].val)
       /\ Below32(encoded[2].val)
       /\ LongAdd(encoded[1].val, TimesTwoTo32(encoded[2].val)) = long64Bits
  /\ codecPc = "decoded" => decoded = PyLong(long64Bits)

C15_Witness ==
  /\ codecPc = "decoded"
  /\ long64Bits = <<Base - 1, Base - 1, Base - 1, Base - 1>>
  /\ low32Bits = PyStr(<<"4", "2", "9", "4", "9", "6", "7", "2", "9", "5">>)
  /\ high32Bits = PyLong(<<Base - 1, Base - 1>>)
  /\ decoded = PyLong(long64Bits)

-----------------------------------------------------------------------------
(* Properties of connecting *)

\* the sockets Connection k has opened
SocksOf(k) == 1..Len(socks[k])

\* the connect() call of k has had its reply to MYTH_PROTO_VERSION
Negotiating(k) ==
  /\ cx[k].pc \in {"lookup", "raised"}
  /\ cx[k].s # 0
  /\ Len(socks[k][cx[k].s].sent) = 1

SecondNegotiation(k, s) ==
  /\ socks[k][s].kind = "connect"
  /\ socks[k][s].after

\* C17 as stated: once a successful negotiation has populated the cache, a
\* later connect() or a second Connection does not send MYTH_PROTO_VERSION
\* again.
C17_NoSecondHandshake ==
  \A k \in Connections : \A s \in SocksOf(k) :
    SecondNegotiation(k, s) =>
      \A j \in 1..Len(socks[k][s].sent) :
        socks[k][s].sent[j].cmd # "MYTH_PROTO_VERSION"

\* C17 amended: a connect() that begins with the cache populated does not
\* probe the server version again (no getServerVersion socket); it sends
\* MYTH_PROTO_VERSION once, with the cached version, on its own socket.
C17_NoSecondProbe ==
  \A k \in Connections : \A s \in SocksOf(k) :
    /\ socks[k][s].kind = "probe" => ~socks[k][s].late
    /\ (socks[k][s].kind = "connect" /\ socks[k][s].late) =>
         \A j \in 1..Len(socks[k][s].sent) :
           socks[k][s].sent[j].cmd = "MYTH_PROTO_VERSION" =>
             /\ j = 1
             /\ socks[k][s].sent[j].arg = protocol_serverVersion
    /\ (socks[k][s].kind = "connect" /\ socks[k][s].late /\ socks[k][s].negotiated) =>
         socks[k][s].sent[1].cmd = "MYTH_PROTO_VERSION"

C17_Witness ==
  \E k \in Connections :
    /\ conn[k].constructed
    /\ Len(socks[k]) = 1
    /\ socks[k][1].late
    /\ socks[k][1].negotiated
    /\ socks[k][1].sent[1] = Message("MYTH_PROTO_VERSION", protocol_serverVersion)

\* s of k has had an announce written to it
Announced(k, s) ==
  \E j \in 1..Len(socks[k][s].sent) : socks[k][s].sent[j].cmd \in Announces

\* C18: when negotiation returns a version with no registered protocol
\* implementation, connect fails with ProtocolException 'Unsupported
\* protocol' and no announce is sent on that socket.
C18_Unsupported ==
  \A k \in Connections :
    /\ (cx[k].pc = "raised" /\ cx[k].what = "Unsupported protocol") =>
         /\ cx[k].exc = "ProtocolException"
         /\ hostVersion[cx[k].host] \notin Registered
         /\ ~Announced(k, cx[k].s)
    /\ cx[k].pc \in {"announce", "annFileTransfer"} =>
         hostVersion[cx[k].host] \in Registered
    /\ \A s \in SocksOf(k) :
         (socks[k][s].kind = "connect" /\ hostVersion[socks[k][s].host] \notin Registered) =>
           ~Announced(k, s)

C18_Witness ==
  \E k \in Connections :
    /\ cx[k].pc = "raised"
    /\ cx[k].what = "Unsupported protocol"
    /\ cx[k].serverVersion = 5
    /\ socks[k][cx[k].s].sent = <<Message("MYTH_PROTO_VERSION", 5)>>

\* C19: once a Connection is constructed, nothing it does, opening further
\* sockets to other backends included, changes self.protocol or replaces
\* self.cmdSock.
C19_FixedProtocol ==
  [][\A k \in Connections :
       conn[k].constructed =>
         /\ conn'[k].protocol = conn[k].protocol
         /\ conn'[k].cmdSock = conn[k].cmdSock]_vars

\* C20: on every socket connect() opens, MYTH_PROTO_VERSION is the first
\* message and its negotiation has succeeded before an announce or any other
\* command is written; a constructed Connection has negotiated and announced
\* Playback on cmdSock before any command.
C20_NegotiateFirst ==
  \A k \in Connections :
    /\ \A s \in SocksOf(k) :
         socks[k][s].kind = "connect" =>
           LET sent == socks[k][s].sent
           IN \A j \in 1..Len(sent) :
                /\ (j = 1) <=> (sent[j].cmd = "MYTH_PROTO_VERSION")
                /\ j > 1 => hostVersion[socks[k][s].host] >= sent[1].arg
                /\ sent[j].cmd \in Announces => j = 2
                /\ j > 2 => sent[2].cmd \in Announces
    /\ conn[k].constructed =>
         LET sent == socks[k][conn[k].cmdSock].sent
         IN /\ socks[k][conn[k].cmdSock].kind = "connect"
            /\ Len(sent) >= 2
            /\ sent[1].cmd = "MYTH_PROTO_VERSION"
            /\ hostVersion[socks[k][conn[k].cmdSock].host] >= sent[1].arg
            /\ sent[2].cmd = "ANN Playback"

C20_Witness ==
  \E k \in Connections :
    /\ conn[k].constructed
    /\ Len(socks[k][conn[k].cmdSock].sent) = 3
    /\ socks[k][conn[k].cmdSock].sent[3].cmd = "QUERY"
    /\ \E s \in SocksOf(k) :
         /\ Len(socks[k][s].sent) = 2
         /\ socks[k][s].sent[2].cmd = "ANN FileTransfer"

-----------------------------------------------------------------------------
(* Properties of the command operations *)

\* the tokens of the reply the backend sent: the bare acknowledgment is the
\* one token OK
ReplyTokens(r) == IF r.kind = "str" THEN <<r.val>> ELSE r.val

\* the first token of the reply is OK, compared case-insensitively
FirstIsOk(r) == Len(ReplyTokens(r)) > 0 /\ Upper(ReplyTokens(r)[1]) = TokOK

\* the operation has read the reply to its request
Replied(names) == opName \in names /\ cmdReply # None

FailsWith(e) == outcome.kind = "raise" /\ outcome.exc = e

\* C21: an announce (Playback, Monitor, FileTransfer) whose reply has OK
\* (case-insensitive) as first token succeeds; for any other reply it fails
\* with a ServerException and hands out no socket or transfer handle.
C21_Announce ==
  Replied({"annPlayback", "annMonitor", "annFileTransfer"}) =>
    IF FirstIsOk(cmdReply) THEN outcome.kind = "return"
    ELSE FailsWith("ServerException")

\* C22: close(), and ConnectionFactory.destroy() through it, writes DONE on
\* the open command socket before it shuts the socket down and closes it;
\* nothing is written after DONE; when it returns the socket is closed.
C22_DoneBeforeShutdown ==
  /\ (opName \in CloseOps /\ sockState # "open") =>
       \/ sendFailed
       \/ Len(wireLog) > 0 /\ wireLog[Len(wireLog)] = "DONE"
  /\ (opName \in CloseOps /\ Ended) => sockState = "closed"
  /\ sockState # "open" => \A j \in 1..Len(wireLog) : wireLog[j] # "DONE" \/ j = Len(wireLog)

C22_Witness ==
  /\ opName = "destroy"
  /\ outcome = Returns(None)
  /\ sockState = "closed"
  /\ wireLog = <<"request", "reply", "DONE">>

C24_WriteFailureSurfaced ==
  (opName \notin CloseOps /\ sendFailed) => (outcome.kind = "raise" /\ ~At("_readMsg"))

\* C25: RECORDING_DELETED is published only after the DELETE_RECORDING reply
\* was received and only when that reply reports success: never for a first
\* token that is not a number, nor for the return code 0.
C25_PublishOnSuccess ==
  /\ Len(published) <= Cardinality({j \in 1..Len(wireLog) : wireLog[j] = "reply"})
  /\ \A j \in 1..Len(published) :
       /\ ParseInt(published[j].rc).ok
       /\ ParseInt(published[j].rc).val # 0

\* an optionally negative decimal integer
IsReturnCode(t) ==
  \/ Len(t) > 0 /\ \A j \in 1..Len(t) : IsDigit(t[j])
  \/ Len(t) > 1 /\ t[1] = "-" /\ \A j \in 2..Len(t) : IsDigit(t[j])

\* C26: deleteRecording and rerecordRecording accept a first reply token that
\* is an optionally negative decimal integer (deleteRecording returns it as an
\* integer); for any other first token they raise a ServerException carrying
\* that token.
C26_ReturnCode ==
  Replied({"deleteRecording", "rerecordRecording"}) =>
    LET t == ReplyTokens(cmdReply)[1]
    IN IF IsReturnCode(t)
       THEN /\ outcome.kind \in {"return", "pending"}
            /\ opName = "deleteRecording" => outcome.val = PyInt(ParseInt(t).val)
       ELSE outcome = Raises("ServerException", PyStr(t))

\* C27: setBookmark returns when the first reply token is OK, raises
\* ServerException when it is FAILED and ProtocolException for any other.
C27_Bookmark ==
  Replied({"setBookmark"}) =>
    LET t == ReplyTokens(cmdReply)[1]
    IN IF t = TokOK THEN outcome = Returns(None)
       ELSE IF t = TokFAILED THEN FailsWith("ServerException")
       ELSE FailsWith("ProtocolException")

\* C28: spawnLiveTV and stopLiveTV succeed exactly when the first reply token
\* is OK compared case-insensitively, spawnLiveTV returning the chain id it
\* generated; otherwise they raise a ServerException with the full reply.
C28_LiveTV ==
  Replied({"spawnLiveTV", "stopLiveTV"}) =>
    IF FirstIsOk(cmdReply)
    THEN outcome = Returns(IF opName = "spawnLiveTV" THEN createChainId ELSE None)
    ELSE outcome = Raises("ServerException", cmdReply)

\* QUERY_COMMBREAK replies: token 1 is the count; record number idx (from 0) is the
\* three tokens marker, high, low that follow
MarkerOf(toks, idx) == toks[2 + 3 * idx]
HighOf(toks, idx) == toks[3 + 3 * idx]
LowOf(toks, idx) == toks[4 + 3 * idx]

\* the reply to getCommercialBreaks is a token list that begins with a count
Counted ==
  /\ Replied({"getCommercialBreaks"})
  /\ cmdReply.kind = "list"
  /\ ParseInt(cmdReply.val[1]).ok

\* the reply holds count records
AllRecords(toks, count) == Len(toks) >= 1 + 3 * count

\* the records are START, END, START, END, ...
WellFormed(toks, count) ==
  /\ AllRecords(toks, count)
  /\ \A idx \in 0..(count - 1) :
       MarkerOf(toks, idx) = (IF idx % 2 = 0 THEN <<"4">> ELSE <<"5">>)

\* high * 2^32 + low, as seconds at the program's frame rate
SecondsOf(toks, idx) ==
  [frames |-> LongAdd(ParseLong(LowOf(toks, idx)), TimesTwoTo32(ParseLong(HighOf(toks, idx)))),
   fps |-> fps]

C30_Markers ==
  Counted =>
    LET toks == cmdReply.val
        count == ParseInt(toks[1]).val
    IN (count >= 0 /\ count % 2 = 0 /\ AllRecords(toks, count)
        /\ ~WellFormed(toks, count)) => FailsWith("ProtocolException")

-----------------------------------------------------------------------------
(* Properties of the queries *)

\* the query has ended
Queried(names) == queryName \in names /\ queryResult # NoOutcome

\* where the count is: token 1 for QUERY_RECORDINGS and QUERY_GETALLSCHEDULED,
\* token 2 for QUERY_GETALLPENDING; the records follow it
CountAt == IF queryName = "getUpcomingRecordings" THEN 2 ELSE 1

\* the reply carries a count c >= 0 followed by at least c records
CarriesRecords ==
  LET toks == queryArg.reply
  IN /\ Len(toks) >= CountAt
     /\ ParseInt(toks[CountAt]).ok
     /\ ParseInt(toks[CountAt]).val >= 0
     /\ Len(toks) >= CountAt + ParseInt(toks[CountAt]).val * protocol_recordSize

\* C31: from a reply carrying a count c and c records, a record-set query
\* builds exactly c records, record k (from 0) being the recordSize tokens
\* that follow position offset + k * recordSize, offset 1 (count first) for
\* QUERY_GETALLSCHEDULED and QUERY_RECORDINGS and 2 for QUERY_GETALLPENDING.
C31_Records ==
  (Queried({"getScheduledRecordings", "getUpcomingRecordings", "getAllRecordings"})
   /\ CarriesRecords) =>
    LET toks == queryArg.reply
        c == ParseInt(toks[CountAt]).val
    IN /\ queryResult.kind = "return"
       /\ Len(queryResult.val.built) = c
       /\ \A k \in 0..(c - 1) :
            queryResult.val.built[k + 1].data =
              [j \in 1..protocol_recordSize |-> toks[CountAt + k * protocol_recordSize + j]]

C31_Witness ==
  /\ Queried({"getUpcomingRecordings"})
  /\ queryArg.reply = << <<"0">>, <<"2">>, <<"L">>, <<"R">>, <<"R">>, <<"L">> >>
  /\ queryResult.kind = "return"
  /\ queryResult.val.built = << [data |-> << <<"L">>, <<"R">> >>],
                                [data |-> << <<"R">>, <<"L">> >>] >>

\* the tuners that are recording or watching showName
ShowingTuners ==
  { j \in 1..Len(queryArg.tuners) :
      /\ queryArg.tuners[j].tvState \in {1, 2, 3, 4}
      /\ queryArg.tuners[j].title = queryArg.showName }

\* C32: getTunerShowing returns the id of the first tuner, in database
\* order, that is recording or watching showName, and -1 when there is none,
\* whatever the states of the tuners before it.
C32_FirstShowing ==
  Queried({"getTunerShowing"}) =>
    IF ShowingTuners = {} THEN queryResult = Returns(PyInt(-1))
    ELSE LET first == CHOOSE j \in ShowingTuners : \A m \in ShowingTuners : j <= m
         IN queryResult = Returns(PyInt(queryArg.tuners[first].tunerId))

\* C33: when _sendMsg returns without raising, the socket has taken the
\* whole frame built from the request, however many bytes one send accepts.
C33_WholeFrame ==
  (Queried({"_sendMsg"}) /\ queryResult.kind = "return") =>
    sockOut = _buildMsg(queryArg.req)

\* C34: the pool is given back only Connections that a successful checkout
\* of the same call took out: a thread's checkins never exceed its
\* successful checkouts, nothing that is not a Connection is checked in,
\* and a call whose checkout raised checks nothing in.
C34_CheckinsWithinCheckouts ==
  \A t \in Threads :
    /\ g[t].nIn <= g[t].nOut
    /\ g[t].gave \in Conns \cup {"none"}

\* C35: when an operation on the Connection's own command socket has ended,
\* by returning or by raising, and the Connection goes back to the pool, no
\* reply is left unread on that socket and none is still to arrive.
C35_NoUnreadReply ==
  (tfPc \in {"returned", "raised"} /\ commandSocket = "cmdSock") =>
    (cmdPending = 0 /\ ~unserved)

\* the sockets of kind opened so far, over all Connections
SocketsOfKind(kind) ==
  { ks \in Connections \X (1..(2 * MaxConnects)) :
      ks[2] <= Len(socks[ks[1]]) /\ socks[ks[1]][ks[2]].kind = kind }

\* C36: the server version is probed at most once in the life of the
\* process, however the threads constructing Connections interleave.
C36_ProbeOnce == Cardinality(SocketsOfKind("probe")) <= 1

\* C37: when connect() or annFileTransfer has raised (protocol mismatch,
\* unsupported protocol, refused announce), the socket that call opened is
\* closed; the socket of the version probe is closed in every case.
C37_ClosedOnFailure ==
  /\ \A k \in Connections :
       cx[k].pc = "raised" => socks[k][cx[k].s].state = "closed"
  /\ \A ks \in SocketsOfKind("probe") : socks[ks[1]][ks[2]].state = "closed"

\* C38: a rerecordRecording call that returns has published exactly one
\* RECORDING_DELETED and returns the return code of its DELETE_RECORDING; a
\* call that ends in an error has published none, and one whose delete
\* failed has sent no second request.
C38_Rerecord ==
  (nOps = 1 /\ opName = "rerecordRecording") =>
    /\ outcome.kind = "raise" => published = <<>>
    /\ outcome.kind = "return" =>
         /\ Len(published) = 1
         /\ outcome.val = PyInt(ParseInt(published[1].rc).val)
    /\ (outcome.kind = "raise" /\ opStep <= Len(_sendRequest) + 1) =>
         Cardinality({j \in 1..Len(wireLog) : wireLog[j] = "request"}) <= 1

\* C39: for every frame number 0 <= f < 2^64, when the backend returns the
\* two words of SET_BOOKMARK in the order they were sent, getBookmark
\* returns f.
C39_BookmarkRoundTrip ==
  Queried({"bookmark"}) => queryResult = Returns(PyLong(queryArg.frameNumber))

C39_Witness ==
  /\ Queried({"bookmark"})
  /\ sockOut[4] = <<"1">>
  /\ sockOut[5] = <<"4", "2", "9", "4", "9", "6", "7", "2", "9", "5">>
  /\ queryResult = Returns(PyLong(queryArg.frameNumber))

-----------------------------------------------------------------------------
(* Properties of the event bus *)

\* no listener is in the list twice
Distinct(lst) == \A j, m \in 1..Len(lst) : lst[j] = lst[m] => j = m

\* C40: when publish returns, every listener that was registered (once)
\* when it started has had the event delivered exactly once, in
\* registration order, whether listeners raised or deregistered themselves
\* or others while handling it; and no call of the bus lets an exception
\* out.
C40_DeliveredToAll ==
  /\ (busPc = "published" /\ Distinct(atStart)) => delivered = atStart
  /\ ~busRaised

=============================================================================
